---- MODULE Spec2Model ----
(***************************************************************************)
(* Ledger and compliance-gated execution subsystem of Value_Arena's        *)
(* ai-decision service: DecisionValidator, PortfolioExecutor and the       *)
(* TradingDecisionWorkflow retry controller, for one agent.                *)
(*                                                                         *)
(* Money is counted in whole units, average_cost and unrealized_pnl are    *)
(* exact fractions.  Dates are day numbers; day 0 is a Monday.             *)
(***************************************************************************)
EXTENDS Integers, Sequences, FiniteSets, TLC

(***************************************************************************)
(* Bounds of the model                                                     *)
(***************************************************************************)
MaxRuns == 2            \* workflow runs started in one behaviour
MaxCalls == 2           \* direct service calls in one behaviour
MaxViolations == 3      \* a run starts while the violation log has room for its rows

(***************************************************************************)
(* Program constants                                                       *)
(***************************************************************************)
max_attempts == 3       \* trading_decision.py:119
QuotaLimit == 5         \* decision_validator.py:144, memory_manager.py:497
HoldingDays == 30       \* decision_validator.py:256

(***************************************************************************)
(* Input domains                                                           *)
(***************************************************************************)
Absent == "ABSENT"                      \* a key the decision does not carry
Symbols == {"AAPL", "XYZ"}              \* symbols a decision can name
StockPool == {"AAPL"}                   \* stocks rows with enabled = TRUE
Quantities == {-1, 0, 1, 2}
Prices == {1, 2}
PositionTypes == {"LONG_TERM", "SHORT_TERM"}
Days == {0, 29, 30, 34}                 \* the dates "today" takes
MonthStarts == {0, 30}                  \* first days of the months the dates fall in

Decisions ==
    [decision_type : {"BUY", "SELL"},
     symbol : Symbols \cup {Absent},
     quantity : Quantities,
     price : Prices,
     position_type : PositionTypes \cup {Absent, "OTHER"}]

\* the decisions handed to execute_trade directly name catalog symbols and
\* the two account types, or leave the key out
ExecDecisions ==
    {d \in Decisions : d.symbol # "XYZ" /\ d.position_type # "OTHER"}

NoDecision ==
    [decision_type |-> "HOLD", symbol |-> Absent, quantity |-> 0,
     price |-> 1, position_type |-> Absent]

(***************************************************************************)
(* Exact fractions for average_cost, current_value and unrealized_pnl      *)
(***************************************************************************)
Abs(x) == IF x < 0 THEN -x ELSE x

RECURSIVE Gcd(_, _)
Gcd(a, b) == IF b = 0 THEN a ELSE Gcd(b, a % b)

\* n/d in lowest terms with a positive denominator (d # 0)
Rat(n, d) ==
    LET g == Gcd(Abs(n), Abs(d))
        s == IF d < 0 THEN -1 ELSE 1
    IN  [num |-> s * (n \div g), den |-> s * (d \div g)]

Null == [num |-> 0, den |-> 0]          \* SQL NULL of a numeric column

(***************************************************************************)
(* Calendar                                                                *)
(***************************************************************************)
is_trading_day(d) == (d % 7) < 5

MonthLabel(d) == Cardinality({m \in MonthStarts : m <= d})

NextDay(d) == CHOOSE e \in Days : e > d /\ \A f \in Days : f > d => e <= f

(***************************************************************************)
(* Tables                                                                  *)
(***************************************************************************)
NoRow ==
    [present |-> FALSE, quantity |-> 0, average_cost |-> Null,
     position_type |-> Absent, first_buy_date |-> 0,
     current_value |-> Null, unrealized_pnl |-> Null]

VARIABLES
    wallets,                \* the agent's wallets row
    positions,              \* symbol -> positions row, or NoRow
    transactions,           \* the transactions log
    ai_state,               \* the agent's ai_state row
    compliance_violations,  \* the compliance_violations log
    ai_token_records,       \* record_date of the agent's trading_decision usage rows
    key_events,             \* the key_events log
    today,                  \* get_et_today()
    test_mode,              \* the workflow's test_mode flag
    pc,                     \* position of the run
    runs,                   \* runs started so far
    attempt,                \* loop variable of run()
    decision,               \* the decision under validation or execution
    validation_failures,    \* run()'s list of failed attempts
    is_valid,               \* run()'s is_valid
    data,                   \* what _collect_market_data returned
    result,                 \* what run() returned
    loop0,                  \* the tables as they were when the attempt loop began
    obs,                    \* calls made by the current run
    calls,                  \* direct service calls made so far
    last,                   \* the last service call and what it returned
    sweep,                  \* an update_position_values call in progress
    txn,                    \* an execute_trade transaction in progress
    clients                 \* what each of two overlapping callers has read so far

ledger == <<wallets, positions, transactions, ai_state>>
tables == <<wallets, positions, transactions, ai_state, compliance_violations,
            ai_token_records, key_events>>
runvars == <<pc, runs, attempt, decision, validation_failures, is_valid, data,
             result, loop0, obs>>
episode == <<sweep, txn, clients>>
vars == <<wallets, positions, transactions, ai_state, compliance_violations,
          ai_token_records, key_events, today, test_mode, pc, runs, attempt,
          decision, validation_failures, is_valid, data, result, loop0, obs,
          calls, last, sweep, txn, clients>>

\* the rows a transaction of the executor works on
DB == [wallets |-> wallets, positions |-> positions,
       transactions |-> transactions, ai_state |-> ai_state]

(***************************************************************************)
(* PortfolioExecutor                                                       *)
(*                                                                         *)
(* A unit of work is a record [ok, db]: db is the working copy of the rows *)
(* after the statements issued so far, ok is FALSE when the body returned  *)
(* False or raised.  fault names the statement at which storage raises:    *)
(* 1 position write, 2 wallet update, 3 transactions insert, 4 quota       *)
(* update, 0 none.                                                         *)
(***************************************************************************)
Faults == 0 .. 4

Done(db) == [ok |-> TRUE, db |-> db]
Failed(db) == [ok |-> FALSE, db |-> db]

_record_transaction(db, d, action, total_amount) ==
    [db EXCEPT !.transactions = Append(@,
        [symbol |-> d.symbol, action |-> action, quantity |-> d.quantity,
         price |-> d.price, total_amount |-> total_amount,
         position_type |-> d.position_type])]

\* a quota update that counts the trade twice
_update_trade_quota_Twice(db) ==
    IF db.ai_state.present
    THEN [db EXCEPT !.ai_state.monthly_trade_quota.used = @ + 2,
                    !.ai_state.last_updated = @ + 1]
    ELSE db

\* a quota update that writes the whole quota object and loses its month
_update_trade_quota_DropsMonth(db) ==
    IF db.ai_state.present
    THEN [db EXCEPT !.ai_state.monthly_trade_quota =
                        [used |-> @.used + 1, limit |-> @.limit, month |-> 0],
                    !.ai_state.last_updated = @ + 1]
    ELSE db

\* UPDATE ai_state ... WHERE agent_id: no row, nothing written, no error
_update_trade_quota(db) ==
    IF db.ai_state.present
    THEN [db EXCEPT !.ai_state.monthly_trade_quota.used = @ + 1,
                    !.ai_state.last_updated = @ + 1]
    ELSE db

\* a BUY that debits the sub-account but not the total
BuyWallet_SplitOnly(w, position_type, total_amount) ==
    IF position_type = "LONG_TERM"
    THEN [w EXCEPT !.long_term_cash = @ - total_amount,
                   !.total_invested = @ + total_amount]
    ELSE [w EXCEPT !.short_term_cash = @ - total_amount,
                   !.total_invested = @ + total_amount]

BuyWallet(w, position_type, total_amount) ==
    IF position_type = "LONG_TERM"
    THEN [w EXCEPT !.cash_balance = @ - total_amount,
                   !.long_term_cash = @ - total_amount,
                   !.total_invested = @ + total_amount]
    ELSE [w EXCEPT !.cash_balance = @ - total_amount,
                   !.short_term_cash = @ - total_amount,
                   !.total_invested = @ + total_amount]

\* a SELL that credits the cash but does not count it as withdrawn
SellWallet_NoWithdrawn(w, position_type, total_amount) ==
    IF position_type = "LONG_TERM"
    THEN [w EXCEPT !.cash_balance = @ + total_amount,
                   !.long_term_cash = @ + total_amount]
    ELSE [w EXCEPT !.cash_balance = @ + total_amount,
                   !.short_term_cash = @ + total_amount]

SellWallet(w, position_type, total_amount) ==
    IF position_type = "LONG_TERM"
    THEN [w EXCEPT !.cash_balance = @ + total_amount,
                   !.long_term_cash = @ + total_amount,
                   !.total_withdrawn = @ + total_amount]
    ELSE [w EXCEPT !.cash_balance = @ + total_amount,
                   !.short_term_cash = @ + total_amount,
                   !.total_withdrawn = @ + total_amount]

\* a BUY that dates an existing position anew
_execute_buy_Redates(db, d, date, fault) ==
    IF d.symbol = Absent \/ d.position_type = Absent
    THEN Failed(db)
    ELSE
    LET symbol == d.symbol
        quantity == d.quantity
        price == d.price
        position_type == d.position_type
        total_amount == quantity * price
        existing_position == db.positions[symbol]
        old_quantity == existing_position.quantity
        old_avg_cost == existing_position.average_cost
        new_quantity == old_quantity + quantity
        new_avg_cost ==
            Rat(old_quantity * old_avg_cost.num + total_amount * old_avg_cost.den,
                old_avg_cost.den * new_quantity)
        db1 == IF existing_position.present
               THEN [db EXCEPT !.positions[symbol].quantity = new_quantity,
                               !.positions[symbol].average_cost = new_avg_cost,
                               !.positions[symbol].first_buy_date = date]
               ELSE [db EXCEPT !.positions[symbol] =
                        [present |-> TRUE, quantity |-> quantity,
                         average_cost |-> Rat(price, 1),
                         position_type |-> position_type,
                         first_buy_date |-> date,
                         current_value |-> Null, unrealized_pnl |-> Null]]
        db2 == [db1 EXCEPT !.wallets = BuyWallet(@, position_type, total_amount)]
        db3 == _record_transaction(db2, d, "BUY", total_amount)
    IN  IF existing_position.present
           /\ existing_position.position_type # position_type
        THEN Failed(db)
        ELSE IF existing_position.present /\ new_quantity = 0
        THEN Failed(db)
        ELSE IF fault = 1 THEN Failed(db)
        ELSE IF fault = 2 THEN Failed(db1)
        ELSE IF fault = 3 THEN Failed(db2)
        ELSE Done(db3)

\* a BUY that moves an existing position to the account type of the decision
_execute_buy_Retypes(db, d, date, fault) ==
    IF d.symbol = Absent \/ d.position_type = Absent
    THEN Failed(db)
    ELSE
    LET symbol == d.symbol
        quantity == d.quantity
        price == d.price
        position_type == d.position_type
        total_amount == quantity * price
        existing_position == db.positions[symbol]
        old_quantity == existing_position.quantity
        old_avg_cost == existing_position.average_cost
        new_quantity == old_quantity + quantity
        new_avg_cost ==
            Rat(old_quantity * old_avg_cost.num + total_amount * old_avg_cost.den,
                old_avg_cost.den * new_quantity)
        db1 == IF existing_position.present
               THEN [db EXCEPT !.positions[symbol].quantity = new_quantity,
                               !.positions[symbol].average_cost = new_avg_cost,
                               !.positions[symbol].position_type = position_type]
               ELSE [db EXCEPT !.positions[symbol] =
                        [present |-> TRUE, quantity |-> quantity,
                         average_cost |-> Rat(price, 1),
                         position_type |-> position_type,
                         first_buy_date |-> date,
                         current_value |-> Null, unrealized_pnl |-> Null]]
        db2 == [db1 EXCEPT !.wallets = BuyWallet(@, position_type, total_amount)]
        db3 == _record_transaction(db2, d, "BUY", total_amount)
    IN  IF existing_position.present /\ new_quantity = 0
        THEN Failed(db)
        ELSE IF fault = 1 THEN Failed(db)
        ELSE IF fault = 2 THEN Failed(db1)
        ELSE IF fault = 3 THEN Failed(db2)
        ELSE Done(db3)

\* a BUY that overwrites average_cost with the price just paid
_execute_buy_LastPrice(db, d, date, fault) ==
    IF d.symbol = Absent \/ d.position_type = Absent
    THEN Failed(db)
    ELSE
    LET symbol == d.symbol
        quantity == d.quantity
        price == d.price
        position_type == d.position_type
        total_amount == quantity * price
        existing_position == db.positions[symbol]
        new_quantity == existing_position.quantity + quantity
        db1 == IF existing_position.present
               THEN [db EXCEPT !.positions[symbol].quantity = new_quantity,
                               !.positions[symbol].average_cost = Rat(price, 1)]
               ELSE [db EXCEPT !.positions[symbol] =
                        [present |-> TRUE, quantity |-> quantity,
                         average_cost |-> Rat(price, 1),
                         position_type |-> position_type,
                         first_buy_date |-> date,
                         current_value |-> Null, unrealized_pnl |-> Null]]
        db2 == [db1 EXCEPT !.wallets = BuyWallet(@, position_type, total_amount)]
        db3 == _record_transaction(db2, d, "BUY", total_amount)
    IN  IF existing_position.present
           /\ existing_position.position_type # position_type
        THEN Failed(db)
        ELSE IF existing_position.present /\ new_quantity = 0
        THEN Failed(db)
        ELSE IF fault = 1 THEN Failed(db)
        ELSE IF fault = 2 THEN Failed(db1)
        ELSE IF fault = 3 THEN Failed(db2)
        ELSE Done(db3)

_execute_buy(db, d, date, fault) ==
    IF d.symbol = Absent \/ d.position_type = Absent
    THEN Failed(db)                                  \* KeyError
    ELSE
    LET symbol == d.symbol
        quantity == d.quantity
        price == d.price
        position_type == d.position_type
        total_amount == quantity * price
        existing_position == db.positions[symbol]
        old_quantity == existing_position.quantity
        old_avg_cost == existing_position.average_cost
        new_quantity == old_quantity + quantity
        \* (old_quantity * old_avg_cost + total_amount) / new_quantity
        new_avg_cost ==
            Rat(old_quantity * old_avg_cost.num + total_amount * old_avg_cost.den,
                old_avg_cost.den * new_quantity)
        db1 == IF existing_position.present
               THEN [db EXCEPT !.positions[symbol].quantity = new_quantity,
                               !.positions[symbol].average_cost = new_avg_cost]
               ELSE [db EXCEPT !.positions[symbol] =
                        [present |-> TRUE, quantity |-> quantity,
                         average_cost |-> Rat(price, 1),
                         position_type |-> position_type,
                         first_buy_date |-> date,
                         current_value |-> Null, unrealized_pnl |-> Null]]
        db2 == [db1 EXCEPT !.wallets = BuyWallet(@, position_type, total_amount)]
        db3 == _record_transaction(db2, d, "BUY", total_amount)
    IN  IF existing_position.present
           /\ existing_position.position_type # position_type
        THEN Failed(db)                              \* position type mismatch
        ELSE IF existing_position.present /\ new_quantity = 0
        THEN Failed(db)                              \* ZeroDivisionError
        ELSE IF fault = 1 THEN Failed(db)
        ELSE IF fault = 2 THEN Failed(db1)
        ELSE IF fault = 3 THEN Failed(db2)
        ELSE Done(db3)

\* a SELL that never checks the held quantity
insufficient_quantity_Never(quantity, current_quantity) ==
    FALSE

\* the guard of _execute_sell against selling more than is held
insufficient_quantity(quantity, current_quantity) ==
    quantity > current_quantity

\* a SELL that credits and records the account type named by the decision
_execute_sell_DecisionType(db, d, fault) ==
    IF d.symbol = Absent \/ d.position_type = Absent
    THEN Failed(db)
    ELSE
    LET symbol == d.symbol
        quantity == d.quantity
        price == d.price
        total_amount == quantity * price
        position == db.positions[symbol]
        current_quantity == position.quantity
        new_quantity == current_quantity - quantity
        db1 == IF new_quantity > 0
               THEN [db EXCEPT !.positions[symbol].quantity = new_quantity]
               ELSE [db EXCEPT !.positions[symbol] = NoRow]
        db2 == [db1 EXCEPT !.wallets = SellWallet(@, d.position_type, total_amount)]
        db3 == _record_transaction(db2, d, "SELL", total_amount)
    IN  IF ~position.present
        THEN Failed(db)
        ELSE IF insufficient_quantity(quantity, current_quantity)
        THEN Failed(db)
        ELSE IF fault = 1 THEN Failed(db)
        ELSE IF fault = 2 THEN Failed(db1)
        ELSE IF fault = 3 THEN Failed(db2)
        ELSE Done(db3)

_execute_sell(db, d, fault) ==
    IF d.symbol = Absent
    THEN Failed(db)                                  \* KeyError
    ELSE
    LET symbol == d.symbol
        quantity == d.quantity
        price == d.price
        total_amount == quantity * price
        position == db.positions[symbol]
        current_quantity == position.quantity
        position_type == position.position_type
        new_quantity == current_quantity - quantity
        db1 == IF new_quantity > 0
               THEN [db EXCEPT !.positions[symbol].quantity = new_quantity]
               ELSE [db EXCEPT !.positions[symbol] = NoRow]
        db2 == [db1 EXCEPT !.wallets = SellWallet(@, position_type, total_amount)]
        db3 == _record_transaction(db2, [d EXCEPT !.position_type = position_type],
                                   "SELL", total_amount)
    IN  IF ~position.present
        THEN Failed(db)                              \* position not found
        ELSE IF insufficient_quantity(quantity, current_quantity)
        THEN Failed(db)                              \* insufficient quantity
        ELSE IF fault = 1 THEN Failed(db)
        ELSE IF fault = 2 THEN Failed(db1)
        ELSE IF fault = 3 THEN Failed(db2)
        ELSE Done(db3)

\* a unit of work that commits whatever was written when the body raised
transaction_NoRollback(before, work) ==
    work.db

\* DatabaseManager.transaction: commit the work, or roll back to the rows
\* as they were when the unit of work began
transaction(before, work) ==
    IF work.ok THEN work.db ELSE before

\* the body of the with-block of execute_trade
TradeWork(db, d, date, fault) ==
    LET success == IF d.decision_type = "BUY"
                   THEN _execute_buy(db, d, date, fault)
                   ELSE _execute_sell(db, d, fault)
    IN  IF d.decision_type \notin {"BUY", "SELL"}
        THEN Failed(db)                              \* invalid decision type
        ELSE IF ~success.ok THEN success
        ELSE IF fault = 4 THEN Failed(success.db)
        ELSE Done(_update_trade_quota(success.db))

\* execute_trade: [ret, db] with db the rows after the call
execute_trade(db, d, date, fault) ==
    LET work == TradeWork(db, d, date, fault)
    IN  [ret |-> work.ok, db |-> transaction(db, work)]

\* the fault that fired during execute_trade, 0 when the call did not reach it
FaultHit(db, d, date, fault) ==
    IF TradeWork(db, d, date, 0).ok /\ ~TradeWork(db, d, date, fault).ok
    THEN fault ELSE 0

(***************************************************************************)
(* DecisionValidator                                                       *)
(*                                                                         *)
(* A rule returns [is_valid, violation_type, reads]; reads lists the       *)
(* tables the rule queried, in order.                                      *)
(***************************************************************************)
Pass(reads) == [is_valid |-> TRUE, violation_type |-> "NONE", reads |-> reads]
Reject(kind, reads) == [is_valid |-> FALSE, violation_type |-> kind, reads |-> reads]

_validate_stock_pool(d) ==
    IF d.symbol = Absent THEN Reject("MISSING_SYMBOL", <<>>)
    ELSE IF d.symbol \notin StockPool THEN Reject("INVALID_STOCK", <<"stocks">>)
    ELSE Pass(<<"stocks">>)

\* a quota rule that lets one trade too many through
_validate_trade_quota_OffByOne(state, d) ==
    IF state.monthly_trade_quota.used > state.monthly_trade_quota.limit
    THEN Reject("TRADE_QUOTA_EXCEEDED", <<"ai_state">>)
    ELSE Pass(<<"ai_state">>)

_validate_trade_quota(state, d) ==
    LET quota == state.monthly_trade_quota
        used == quota.used
        limit == quota.limit
    IN  IF ~state.present THEN Reject("STATE_NOT_FOUND", <<"ai_state">>)
        ELSE IF used >= limit THEN Reject("TRADE_QUOTA_EXCEEDED", <<"ai_state">>)
        ELSE Pass(<<"ai_state">>)

_validate_wallet_balance(wallet, d) ==
    LET position_type == d.position_type
        total_amount == d.quantity * d.price
    IN  IF d.decision_type # "BUY" THEN Pass(<<>>)
        ELSE IF position_type = Absent THEN Reject("MISSING_POSITION_TYPE", <<>>)
        ELSE IF position_type = "LONG_TERM"
        THEN IF total_amount > wallet.long_term_cash
             THEN Reject("INSUFFICIENT_LONG_TERM_CASH", <<"wallets">>)
             ELSE Pass(<<"wallets">>)
        ELSE IF position_type = "SHORT_TERM"
        THEN IF total_amount > wallet.short_term_cash
             THEN Reject("INSUFFICIENT_SHORT_TERM_CASH", <<"wallets">>)
             ELSE Pass(<<"wallets">>)
        ELSE Reject("INVALID_POSITION_TYPE", <<"wallets">>)

\* a holding-period rule that also blocks the 30th day
_validate_wash_trade_Inclusive(pos, d, date) ==
    LET position == IF d.symbol \in Symbols THEN pos[d.symbol] ELSE NoRow
        holding_days == date - position.first_buy_date
    IN  IF ~position.present THEN Reject("POSITION_NOT_FOUND", <<"positions">>)
        ELSE IF position.position_type = "LONG_TERM" /\ holding_days <= HoldingDays
        THEN Reject("WASH_TRADE_VIOLATION", <<"positions">>)
        ELSE Pass(<<"positions">>)

_validate_wash_trade(pos, d, date) ==
    LET position == IF d.symbol \in Symbols THEN pos[d.symbol] ELSE NoRow
        holding_days == date - position.first_buy_date
    IN  IF ~position.present THEN Reject("POSITION_NOT_FOUND", <<"positions">>)
        ELSE IF position.position_type = "LONG_TERM" /\ holding_days < HoldingDays
        THEN Reject("WASH_TRADE_VIOLATION", <<"positions">>)
        ELSE Pass(<<"positions">>)

\* a rule chain that asks for the quota before the stock pool
validate_decision_QuotaFirst(db, d, date) ==
    LET r1 == _validate_trade_quota(db.ai_state, d)
        r2 == _validate_stock_pool(d)
        r3 == _validate_wallet_balance(db.wallets, d)
        r4 == _validate_wash_trade(db.positions, d, date)
    IN  IF ~r1.is_valid THEN r1
        ELSE IF ~r2.is_valid THEN Reject(r2.violation_type, r1.reads \o r2.reads)
        ELSE IF ~r3.is_valid
        THEN Reject(r3.violation_type, r1.reads \o r2.reads \o r3.reads)
        ELSE IF d.decision_type = "SELL"
        THEN IF ~r4.is_valid
             THEN Reject(r4.violation_type,
                         r1.reads \o r2.reads \o r3.reads \o r4.reads)
             ELSE Pass(r1.reads \o r2.reads \o r3.reads \o r4.reads)
        ELSE Pass(r1.reads \o r2.reads \o r3.reads)

\* the rule chain of validate_decision, without the audit write
validate_decision(db, d, date) ==
    LET r1 == _validate_stock_pool(d)
        r2 == _validate_trade_quota(db.ai_state, d)
        r3 == _validate_wallet_balance(db.wallets, d)
        r4 == _validate_wash_trade(db.positions, d, date)
    IN  IF ~r1.is_valid THEN r1
        ELSE IF ~r2.is_valid THEN Reject(r2.violation_type, r1.reads \o r2.reads)
        ELSE IF ~r3.is_valid
        THEN Reject(r3.violation_type, r1.reads \o r2.reads \o r3.reads)
        ELSE IF d.decision_type = "SELL"
        THEN IF ~r4.is_valid
             THEN Reject(r4.violation_type,
                         r1.reads \o r2.reads \o r3.reads \o r4.reads)
             ELSE Pass(r1.reads \o r2.reads \o r3.reads \o r4.reads)
        ELSE Pass(r1.reads \o r2.reads \o r3.reads)

\* an audit write that is always skipped
_log_violation_Silent(log, violation_type, test) ==
    log

\* _log_violation: the compliance_violations log after the call
_log_violation(log, violation_type, test) ==
    IF test THEN log
    ELSE Append(log, [violation_type |-> violation_type,
                      detection_method |-> "PRE_EXECUTION_CHECK",
                      severity |-> "blocked"])

\* an audit write issued for every verdict
AuditLog_Always(log, r, test) ==
    _log_violation(log, r.violation_type, test)

\* the compliance_violations log after validate_decision returned r
AuditLog(log, r, test) ==
    IF r.is_valid THEN log ELSE _log_violation(log, r.violation_type, test)

\* the log after validate_decision returned r when the INSERT of
\* _log_violation may raise: the except clause logs the error and returns
AuditWrite(log, r, test, fault) ==
    IF fault /\ ~r.is_valid THEN log ELSE AuditLog(log, r, test)

(***************************************************************************)
(* MemoryManager                                                           *)
(*                                                                         *)
(* The ai_state row carries the two quotas, one narrative field, the       *)
(* version and last_updated, counted in writes to the row.  A patch names  *)
(* the columns it sets in keys; the expected version is {} for None.       *)
(***************************************************************************)
NoState ==
    [present |-> FALSE,
     monthly_trade_quota |-> [used |-> 0, limit |-> 0, month |-> 0],
     weekly_trade_quota |-> [used |-> 0, limit |-> 0, week |-> 0],
     market_view |-> "", state_version |-> 0, last_updated |-> 0]

\* the row a fresh agent gets, with the month not yet set
InitialState ==
    [present |-> TRUE,
     monthly_trade_quota |-> [used |-> 0, limit |-> QuotaLimit, month |-> 0],
     weekly_trade_quota |-> [used |-> 0, limit |-> 5, week |-> 0],
     market_view |-> "", state_version |-> 1, last_updated |-> 0]

\* INSERT ... ON CONFLICT (agent_id) DO NOTHING
_initialize_ai_state(state) ==
    IF state.present THEN state ELSE InitialState

\* load_ai_state: the row after the call
load_ai_state(state) ==
    IF ~state.present THEN _initialize_ai_state(state) ELSE state

\* a WHERE clause without the version test
version_matches_Always(state, current_version) ==
    TRUE

\* the optimistic-locking part of the WHERE clause of update_ai_state
version_matches(state, current_version) ==
    current_version = {} \/ state.state_version \in current_version

\* an update that bumps the version only under optimistic locking
update_ai_state_NoBump(state, updates, current_version, fault) ==
    LET patched ==
            [state EXCEPT
                !.monthly_trade_quota =
                    IF "monthly_trade_quota" \in updates.keys
                    THEN updates.monthly_trade_quota ELSE @,
                !.market_view =
                    IF "market_view" \in updates.keys
                    THEN updates.market_view ELSE @,
                !.state_version = IF current_version = {} THEN @ ELSE @ + 1,
                !.last_updated = @ + 1]
    IN  IF fault \/ "state_version" \in updates.keys
        THEN [ret |-> FALSE, state |-> state]
        ELSE IF ~(state.present /\ version_matches(state, current_version))
        THEN [ret |-> FALSE, state |-> state]
        ELSE [ret |-> TRUE, state |-> patched]

\* update_ai_state: [ret, state] with state the row after the call.  A patch
\* of state_version makes the statement assign the column twice, which the
\* database refuses; fault: execute_update raises
update_ai_state(state, updates, current_version, fault) ==
    LET patched ==
            [state EXCEPT
                !.monthly_trade_quota =
                    IF "monthly_trade_quota" \in updates.keys
                    THEN updates.monthly_trade_quota ELSE @,
                !.market_view =
                    IF "market_view" \in updates.keys
                    THEN updates.market_view ELSE @,
                !.state_version = @ + 1,
                !.last_updated = @ + 1]
    IN  IF fault \/ "state_version" \in updates.keys
        THEN [ret |-> FALSE, state |-> state]
        ELSE IF ~(state.present /\ version_matches(state, current_version))
        THEN [ret |-> FALSE, state |-> state]       \* rowcount == 0
        ELSE [ret |-> TRUE, state |-> patched]

\* the patch {'monthly_trade_quota': q}
QuotaPatch(quota) ==
    [keys |-> {"monthly_trade_quota"}, monthly_trade_quota |-> quota,
     market_view |-> "", state_version |-> 0]

\* MemoryManager.reset_monthly_trade_quota through update_ai_state
reset_monthly_trade_quota(state, month) ==
    LET new_quota == [used |-> 0, limit |-> QuotaLimit, month |-> month]
    IN  update_ai_state(state, QuotaPatch(new_quota), {}, FALSE).state

(***************************************************************************)
(* Initial state                                                           *)
(***************************************************************************)
InitialUsed == {4}          \* monthly trades already used when observation begins

\* what is recorded of a service call: the operation, the decision's type,
\* symbol and quantity, the fault that fired, whether a position row existed
\* and the quantity it held before the call, and what the call returned
Call(op, d, fault, pos, ret, violation_type, reads) ==
    [op |-> op, decision_type |-> d.decision_type, symbol |-> d.symbol,
     quantity |-> d.quantity, fault |-> fault,
     present |-> d.symbol \in Symbols /\ pos[d.symbol].present,
     held |-> IF d.symbol \in Symbols /\ pos[d.symbol].present
              THEN pos[d.symbol].quantity ELSE 0,
     ret |-> ret, violation_type |-> violation_type, reads |-> reads]

NoCall == Call("none", NoDecision, 0, [s \in Symbols |-> NoRow], FALSE, "NONE", <<>>)

\* what is recorded of a run: what its month check did to the quota, the
\* oracle calls, validations and execute_trade calls it made, the kind of the
\* last oracle response, how the last step ended, the attempt whose decision passed validation (0 when none did), and
\* whether a position row existed and what it held when execute_trade began
NoObs == [reset |-> "NONE", oracle |-> 0, validate |-> 0, execute |-> 0, response |-> "NONE",
          outcome |-> "NONE", passed |-> 0, present |-> FALSE, held |-> 0]

NoData == [monthly_quota |-> [used |-> 0, limit |-> QuotaLimit, month |-> 0],
           prices |-> [s \in Symbols |-> 0]]

Snapshot == [wallets |-> wallets, positions |-> positions,
             transactions |-> transactions, ai_state |-> ai_state,
             violations |-> Len(compliance_violations)]

\* no sweep and no transaction in progress
NoSweep == [pc |-> "idle", current_prices |-> [s \in Symbols |-> 0],
            positions |-> [s \in Symbols |-> NoRow], todo |-> {}]

NoTxn == [pc |-> "idle", d |-> NoDecision, locked |-> {}, ret |-> FALSE,
          before |-> <<>>, work |-> <<>>]

\* two callers working on the same agent at the same time
Clients == {1, 2}

\* a caller that has read nothing: where it stands, the attempt it is at, the
\* decision it carries, the rows it read and what its last call returned
NoClient ==
    [pc |-> "idle", attempt |-> 0, d |-> NoDecision,
     seen |-> [positions |-> [s \in Symbols |-> NoRow], ai_state |-> NoState],
     ret |-> FALSE]

\* the tables of an agent whose ai_state row is state, and a workflow built
\* with test_mode = mode
InitRowsIn(state, mode) ==
    /\ wallets = [cash_balance |-> 7, long_term_cash |-> 3, short_term_cash |-> 3,
                  reserved_cash |-> 1, total_invested |-> 0, total_withdrawn |-> 0]
    /\ positions = [s \in Symbols |-> NoRow]
    /\ transactions = <<>>
    /\ ai_state = state
    /\ compliance_violations = <<>>
    /\ ai_token_records = {}
    /\ key_events = <<>>
    /\ today = 0
    /\ test_mode = mode
    /\ pc = "idle"
    /\ runs = 0
    /\ attempt = 0
    /\ decision = NoDecision
    /\ validation_failures = <<>>
    /\ is_valid = FALSE
    /\ data = NoData
    /\ result = "none"
    /\ loop0 = Snapshot
    /\ obs = NoObs
    /\ calls = 0
    /\ last = NoCall
    /\ sweep = NoSweep
    /\ txn = NoTxn
    /\ clients = [c \in Clients |-> NoClient]

\* the workflow is built with test_mode = False unless --test-mode is given
InitRows(state) == InitRowsIn(state, FALSE)

\* an agent in the month of day 0 with u trades used
InitWith(u) ==
    InitRows([InitialState EXCEPT !.monthly_trade_quota.used = u,
                                  !.monthly_trade_quota.month = MonthLabel(0)])

Init == \E u \in InitialUsed : InitWith(u)

(***************************************************************************)
(* The services called directly, in any order                              *)
(***************************************************************************)
AdvanceDay ==
    /\ pc = "idle"
    /\ \E e \in Days : e > today
    /\ today' = NextDay(today)
    /\ UNCHANGED <<tables, test_mode, episode, runvars, calls, last>>

CallValidateDecision(d) ==
    /\ pc = "idle"
    /\ calls < MaxCalls
    /\ LET r == validate_decision(DB, d, today)
       IN  /\ compliance_violations' = AuditLog(compliance_violations, r, test_mode)
           /\ last' = Call("validate_decision", d, 0, positions,
                            r.is_valid, r.violation_type, r.reads)
    /\ calls' = calls + 1
    /\ UNCHANGED <<ledger, ai_token_records, key_events, today, test_mode, episode, runvars>>

CallExecuteTrade(d, fault) ==
    /\ pc = "idle"
    /\ calls < MaxCalls
    /\ LET r == execute_trade(DB, d, today, fault)
       IN  /\ wallets' = r.db.wallets
           /\ positions' = r.db.positions
           /\ transactions' = r.db.transactions
           /\ ai_state' = r.db.ai_state
           /\ last' = Call("execute_trade", d, FaultHit(DB, d, today, fault),
                            positions, r.ret, "NONE", <<>>)
    /\ calls' = calls + 1
    /\ UNCHANGED <<compliance_violations, ai_token_records, key_events, today,
                   test_mode, episode, runvars>>

NextService ==
    \/ AdvanceDay
    \/ \E d \in Decisions : CallValidateDecision(d)
    \/ \E d \in ExecDecisions \cup {NoDecision}, fault \in Faults :
          CallExecuteTrade(d, fault)

SpecService == Init /\ [][NextService]_vars

(***************************************************************************)
(* PortfolioExecutor called directly on one symbol, the decision it was    *)
(* given kept in view                                                      *)
(***************************************************************************)
ExecutorDecisions ==
    {d \in Decisions : d.symbol \in StockPool /\ d.position_type # "OTHER"}

ExecuteDecision(d, fault) ==
    /\ pc = "idle"
    /\ calls < MaxCalls
    /\ LET r == execute_trade(DB, d, today, fault)
       IN  /\ wallets' = r.db.wallets
           /\ positions' = r.db.positions
           /\ transactions' = r.db.transactions
           /\ ai_state' = r.db.ai_state
           /\ last' = Call("execute_trade", d, FaultHit(DB, d, today, fault),
                            positions, r.ret, "NONE", <<>>)
    /\ decision' = d
    /\ calls' = calls + 1
    /\ UNCHANGED <<compliance_violations, ai_token_records, key_events, today,
                   test_mode, episode, pc, runs, attempt, validation_failures, is_valid,
                   data, result, loop0, obs>>

NextExecutor ==
    \/ AdvanceDay
    \/ \E d \in ExecutorDecisions, fault \in Faults : ExecuteDecision(d, fault)

SpecExecutor == Init /\ [][NextExecutor]_vars

(***************************************************************************)
(* DecisionValidator called on a ledger a few trades old, the decision it  *)
(* was given kept in view; the audit INSERT may fail                       *)
(***************************************************************************)
ValidatorInitialUsed == {3, 4}

\* the trades that build the ledger the validator is called on
SeedTrades ==
    {d \in ExecDecisions : /\ d.symbol \in StockPool
                           /\ d.quantity = 1 /\ d.price = 1
                           /\ d.position_type \in PositionTypes}

\* the decisions the validator is asked about
ValidatorDecisions == {d \in Decisions : d.quantity > 0}

AuditFaults == BOOLEAN

InitValidator == \E u \in ValidatorInitialUsed : InitWith(u)

\* a validator that takes the cash of an accepted BUY out of the wallet
ValidateDecision_Reserves(d, fault) ==
    /\ pc = "idle"
    /\ calls < MaxCalls
    /\ LET r == validate_decision(DB, d, today)
       IN  /\ compliance_violations' =
                  AuditWrite(compliance_violations, r, test_mode, fault)
           /\ last' = Call("validate_decision", d,
                            IF fault /\ ~r.is_valid THEN 1 ELSE 0, positions,
                            r.is_valid, r.violation_type, r.reads)
           /\ wallets' = IF r.is_valid /\ d.decision_type = "BUY"
                         THEN BuyWallet(wallets, d.position_type,
                                        d.quantity * d.price)
                         ELSE wallets
    /\ decision' = d
    /\ calls' = calls + 1
    /\ UNCHANGED <<positions, transactions, ai_state, ai_token_records,
                   key_events, today, test_mode, episode, pc, runs, attempt,
                   validation_failures, is_valid, data, result, loop0, obs>>

\* validate_decision(agent_id, d); fault: the audit INSERT raises
ValidateDecision(d, fault) ==
    /\ pc = "idle"
    /\ calls < MaxCalls
    /\ LET r == validate_decision(DB, d, today)
       IN  /\ compliance_violations' =
                  AuditWrite(compliance_violations, r, test_mode, fault)
           /\ last' = Call("validate_decision", d,
                            IF fault /\ ~r.is_valid THEN 1 ELSE 0, positions,
                            r.is_valid, r.violation_type, r.reads)
    /\ decision' = d
    /\ calls' = calls + 1
    /\ UNCHANGED <<ledger, ai_token_records, key_events, today, test_mode, episode, pc,
                   runs, attempt, validation_failures, is_valid, data, result,
                   loop0, obs>>

NextValidator ==
    \/ AdvanceDay
    \/ \E d \in SeedTrades : CallExecuteTrade(d, 0)
    \/ \E d \in ValidatorDecisions, fault \in AuditFaults :
          ValidateDecision(d, fault)

SpecValidator == InitValidator /\ [][NextValidator]_vars

(***************************************************************************)
(* MemoryManager called directly on an ai_state row that exists or not,    *)
(* between trades that count against the quota                             *)
(***************************************************************************)
PatchQuotas ==
    {[used |-> 0, limit |-> QuotaLimit, month |-> MonthLabel(m)] : m \in MonthStarts}

Patches ==
    {[keys |-> {}, monthly_trade_quota |-> q, market_view |-> "",
      state_version |-> 0] : q \in {NoState.monthly_trade_quota}}
    \cup {QuotaPatch(q) : q \in PatchQuotas}
    \cup {[keys |-> {"market_view"}, monthly_trade_quota |-> NoState.monthly_trade_quota,
           market_view |-> "bullish", state_version |-> 0]}
    \cup {[keys |-> {"monthly_trade_quota", "market_view"}, monthly_trade_quota |-> q,
           market_view |-> "bullish", state_version |-> 0] : q \in PatchQuotas}
    \cup {[keys |-> {"state_version"}, monthly_trade_quota |-> NoState.monthly_trade_quota,
           market_view |-> "", state_version |-> 0]}

\* current_version: None, or the version the caller read
ExpectedVersions == {{}} \cup {{v} : v \in 0 .. 3}

StorageFaults == BOOLEAN

InitState ==
    \/ \E u \in InitialUsed : InitWith(u)
    \/ InitRows(NoState)

LoadAiState ==
    /\ pc = "idle"
    /\ calls < MaxCalls
    /\ ai_state' = load_ai_state(ai_state)
    /\ last' = [op |-> "load_ai_state", ret |-> TRUE]
    /\ calls' = calls + 1
    /\ UNCHANGED <<wallets, positions, transactions, compliance_violations,
                   ai_token_records, key_events, today, test_mode, episode, runvars>>

UpdateAiState(updates, current_version, fault) ==
    /\ pc = "idle"
    /\ calls < MaxCalls
    /\ LET r == update_ai_state(ai_state, updates, current_version, fault)
       IN  /\ ai_state' = r.state
           /\ last' = [op |-> "update_ai_state", ret |-> r.ret, fault |-> fault,
                        updates |-> updates, current_version |-> current_version]
    /\ calls' = calls + 1
    /\ UNCHANGED <<wallets, positions, transactions, compliance_violations,
                   ai_token_records, key_events, today, test_mode, episode, runvars>>

\* reset_monthly_trade_quota(agent_id, month), called directly
ResetMonthlyTradeQuota(month) ==
    /\ pc = "idle"
    /\ calls < MaxCalls
    /\ LET new_quota == [used |-> 0, limit |-> QuotaLimit, month |-> month]
       IN  /\ ai_state' = reset_monthly_trade_quota(ai_state, month)
           /\ last' = [op |-> "update_ai_state",
                        ret |-> update_ai_state(ai_state, QuotaPatch(new_quota),
                                                {}, FALSE).ret,
                        fault |-> FALSE, updates |-> QuotaPatch(new_quota),
                        current_version |-> {}]
    /\ calls' = calls + 1
    /\ UNCHANGED <<wallets, positions, transactions, compliance_violations,
                   ai_token_records, key_events, today, test_mode, episode, runvars>>

NextState ==
    \/ LoadAiState
    \/ \E updates \in Patches, current_version \in ExpectedVersions,
          fault \in StorageFaults :
          UpdateAiState(updates, current_version, fault)
    \/ \E m \in MonthStarts : ResetMonthlyTradeQuota(MonthLabel(m))
    \/ \E d \in SeedTrades : CallExecuteTrade(d, 0)

SpecState == InitState /\ [][NextState]_vars

(***************************************************************************)
(* TradingDecisionWorkflow.run, one action per step                        *)
(***************************************************************************)
\* what one oracle call can produce: a failed call, text that does not parse
\* to a non-empty object, a HOLD, or a BUY/SELL decision
OracleDecisions ==
    {d \in Decisions : /\ d.symbol # Absent
                       /\ d.quantity >= 0
                       /\ d.position_type \in PositionTypes}

Responses ==
    [kind : {"fail", "unparseable", "HOLD"}, d : {NoDecision}]
    \cup [kind : {"decision"}, d : OracleDecisions]

\* data['prices']: the symbols the price feed has a current price for
PriceFeeds == {[s \in Symbols |-> IF s \in StockPool THEN 2 ELSE 0]}

Return(r) ==
    /\ result' = r
    /\ pc' = "done"

\* run(), up to the trading-day check
StartRun ==
    /\ pc = "idle"
    /\ runs < MaxRuns
    /\ Len(compliance_violations) + max_attempts <= MaxViolations
    /\ runs' = runs + 1
    /\ obs' = NoObs
    /\ IF ~test_mode /\ ~is_trading_day(today)
       THEN Return(TRUE)
       ELSE /\ pc' = "reset"
            /\ UNCHANGED result
    /\ UNCHANGED <<tables, today, test_mode, episode, attempt, decision,
                   validation_failures, is_valid, data, loop0, calls, last>>

\* a month check that resets the quota at the start of every run
_check_and_reset_monthly_quota_Always(state, date) ==
    reset_monthly_trade_quota(state, MonthLabel(date))

_check_and_reset_monthly_quota(state, date) ==
    LET current_month_in_quota == state.monthly_trade_quota.month
        current_month == MonthLabel(date)
    IN  IF current_month_in_quota # current_month
        THEN reset_monthly_trade_quota(state, current_month)
        ELSE state

\* step 0.5 of run()
CheckAndResetMonthlyQuota ==
    /\ pc = "reset"
    /\ ai_state' = _check_and_reset_monthly_quota(ai_state, today)
    /\ obs' = [obs EXCEPT !.reset =
                  IF ai_state.monthly_trade_quota.month # MonthLabel(today)
                  THEN "RESET" ELSE "KEPT"]
    /\ pc' = "collect"
    /\ UNCHANGED <<wallets, positions, transactions, compliance_violations,
                   ai_token_records, key_events, today, test_mode, episode, runs, attempt,
                   decision, validation_failures, is_valid, data, result, loop0,
                   calls, last>>

\* _collect_market_data and the quota check that follows it
CollectMarketData(feed) ==
    /\ pc = "collect"
    /\ data' = [monthly_quota |-> ai_state.monthly_trade_quota, prices |-> feed]
    /\ IF ai_state.monthly_trade_quota.used >= ai_state.monthly_trade_quota.limit
       THEN /\ Return(TRUE)
            /\ UNCHANGED <<attempt, validation_failures, is_valid, loop0>>
       ELSE /\ pc' = "generate"
            /\ attempt' = 1
            /\ validation_failures' = <<>>
            /\ is_valid' = FALSE
            /\ loop0' = Snapshot
            /\ UNCHANGED result
    /\ UNCHANGED <<tables, today, test_mode, episode, runs, decision, obs, calls, last>>

\* a loop that falls through to step 6 when its attempts are exhausted
NextAttempt_FallsThrough ==
    IF attempt < max_attempts
    THEN /\ attempt' = attempt + 1
         /\ pc' = "generate"
         /\ UNCHANGED result
    ELSE /\ pc' = "execute"
         /\ UNCHANGED <<attempt, result>>

\* the for loop moves to its next iteration, or ends with is_valid false
NextAttempt ==
    IF attempt < max_attempts
    THEN /\ attempt' = attempt + 1
         /\ pc' = "generate"
         /\ UNCHANGED result
    ELSE /\ Return(TRUE)
         /\ UNCHANGED attempt

\* TokenRecorder.record_from_usage after an oracle call: an upsert of the
\* row of (record_date, agent_id, service)
record_from_usage(records, resp, date) ==
    IF resp.kind # "fail" THEN records \cup {date} ELSE records

\* a _generate_decision that hands a HOLD on as a decision
_generate_decision_NoHoldCheck(records, r1, r2, date) ==
    LET rec1 == record_from_usage(records, r1, date)
        rec2 == record_from_usage(rec1, r2, date)
    IN  IF r1.kind = "fail"
        THEN [outcome |-> "NONE", d |-> NoDecision, calls |-> 1, records |-> rec1]
        ELSE IF r1.kind \in {"HOLD", "decision"}
        THEN [outcome |-> "decision", d |-> r1.d, calls |-> 1, records |-> rec1]
        ELSE IF r2.kind \in {"fail", "unparseable"}
        THEN [outcome |-> "PARSE_ERROR", d |-> NoDecision, calls |-> 2,
              records |-> rec2]
        ELSE [outcome |-> "decision", d |-> r2.d, calls |-> 2, records |-> rec2]

\* a _generate_decision that gives up on the first unparseable response
_generate_decision_NoReprompt(records, r1, r2, date) ==
    LET rec1 == record_from_usage(records, r1, date)
    IN  IF r1.kind \in {"fail", "HOLD"}
        THEN [outcome |-> "NONE", d |-> NoDecision, calls |-> 1, records |-> rec1]
        ELSE IF r1.kind = "decision"
        THEN [outcome |-> "decision", d |-> r1.d, calls |-> 1, records |-> rec1]
        ELSE [outcome |-> "PARSE_ERROR", d |-> NoDecision, calls |-> 1,
              records |-> rec1]

\* _generate_decision: what it returns after a first response r1 and, when r1
\* did not parse, the response r2 to the stricter re-prompt.  outcome is
\* "NONE" for a returned None, "PARSE_ERROR", or "decision"; calls is the
\* number of oracle calls made and records the token-usage upserts after them
_generate_decision(records, r1, r2, date) ==
    LET rec1 == record_from_usage(records, r1, date)
        rec2 == record_from_usage(rec1, r2, date)
    IN  IF r1.kind = "fail"
        THEN [outcome |-> "NONE", d |-> NoDecision,
              calls |-> 1, records |-> rec1]
        ELSE IF r1.kind = "HOLD"
        THEN [outcome |-> "NONE", d |-> NoDecision,
              calls |-> 1, records |-> rec1]
        ELSE IF r1.kind = "decision"
        THEN [outcome |-> "decision", d |-> r1.d,
              calls |-> 1, records |-> rec1]
        ELSE IF r2.kind \in {"fail", "unparseable"}
        THEN [outcome |-> "PARSE_ERROR", d |-> NoDecision,
              calls |-> 2, records |-> rec2]
        ELSE IF r2.kind = "HOLD"
        THEN [outcome |-> "NONE", d |-> NoDecision,
              calls |-> 2, records |-> rec2]
        ELSE [outcome |-> "decision", d |-> r2.d,
              calls |-> 2, records |-> rec2]

\* one iteration of the for loop of run(): _generate_decision, then
\* validate_decision with its audit write, then the branch on the verdict
Iteration(r1, r2) ==
    LET g == _generate_decision(ai_token_records, r1, r2, today)
        r == validate_decision(DB, g.d, today)
        response == IF r1.kind = "unparseable" THEN r2.kind ELSE r1.kind
    IN  /\ ai_token_records' = g.records
        /\ CASE g.outcome = "PARSE_ERROR" ->
                   /\ obs' = [obs EXCEPT !.oracle = @ + g.calls,
                                         !.response = response,
                                         !.outcome = "PARSE_ERROR"]
                   /\ NextAttempt
                   /\ UNCHANGED <<decision, is_valid, validation_failures,
                                  compliance_violations>>
             [] g.outcome = "NONE" ->
                   /\ obs' = [obs EXCEPT !.oracle = @ + g.calls,
                                         !.response = response,
                                         !.outcome = "NO_DECISION"]
                   /\ Return(TRUE)
                   /\ UNCHANGED <<attempt, decision, is_valid,
                                  validation_failures, compliance_violations>>
             [] g.outcome = "decision" ->
                   /\ compliance_violations' =
                          AuditLog(compliance_violations, r, test_mode)
                   /\ is_valid' = r.is_valid
                   /\ IF r.is_valid
                      THEN /\ obs' = [obs EXCEPT !.oracle = @ + g.calls,
                                                 !.response = response,
                                                 !.validate = @ + 1,
                                                 !.outcome = "PASSED",
                                                 !.passed = attempt]
                           /\ decision' = g.d
                           /\ pc' = "execute"
                           /\ UNCHANGED <<attempt, validation_failures, result>>
                      ELSE /\ obs' = [obs EXCEPT !.oracle = @ + g.calls,
                                                 !.response = response,
                                                 !.validate = @ + 1,
                                                 !.outcome = "REJECTED"]
                           /\ validation_failures' = Append(validation_failures,
                                  [attempt |-> attempt,
                                   violation_type |-> r.violation_type])
                           /\ NextAttempt
                           /\ UNCHANGED decision
        /\ UNCHANGED <<ledger, key_events, today, test_mode, episode, runs, data, loop0,
                       calls, last>>

\* an iteration whose first oracle response is a failed call, a HOLD or a
\* decision
Attempt(resp) ==
    /\ pc = "generate"
    /\ resp.kind # "unparseable"
    /\ Iteration(resp, resp)

\* an iteration whose first oracle response does not parse
AttemptWithReprompt(resp) ==
    /\ pc = "generate"
    /\ Iteration([kind |-> "unparseable", d |-> NoDecision], resp)

\* step 6 of run(): execute_trade, skipped in test mode; fault: the
\* statement of the transaction at which storage raises
ExecuteTradeWith(fault) ==
    /\ pc = "execute"
    /\ IF test_mode
       THEN /\ pc' = "mtm"
            /\ UNCHANGED <<ledger, obs, last, result>>
       ELSE LET r == execute_trade(DB, decision, today, fault)
            IN  /\ wallets' = r.db.wallets
                /\ positions' = r.db.positions
                /\ transactions' = r.db.transactions
                /\ ai_state' = r.db.ai_state
                /\ obs' = [obs EXCEPT
                              !.execute = @ + 1,
                              !.outcome = IF r.ret THEN "EXECUTED"
                                          ELSE "EXECUTION_FAILED",
                              !.present = positions[decision.symbol].present,
                              !.held = positions[decision.symbol].quantity]
                /\ UNCHANGED last
                /\ IF r.ret
                   THEN /\ pc' = "mtm"
                        /\ UNCHANGED result
                   ELSE Return(FALSE)
    /\ UNCHANGED <<compliance_violations, ai_token_records, key_events, today,
                   test_mode, episode, runs, attempt, decision, validation_failures,
                   is_valid, data, loop0, calls>>

\* step 6 with healthy storage
ExecuteTrade == ExecuteTradeWith(0)

\* a sweep that values a position without a price at price 0
update_position_values_ZeroPrice(pos, current_prices) ==
    [s \in Symbols |->
        IF pos[s].present
        THEN LET quantity == pos[s].quantity
                 average_cost == pos[s].average_cost
                 current_value == quantity * current_prices[s]
             IN  [pos[s] EXCEPT
                    !.current_value = Rat(current_value, 1),
                    !.unrealized_pnl =
                        Rat(current_value * average_cost.den
                              - quantity * average_cost.num, average_cost.den)]
        ELSE pos[s]]

\* update_position_values: the sweep over the agent's positions
update_position_values(pos, current_prices) ==
    [s \in Symbols |->
        IF pos[s].present /\ current_prices[s] # 0
        THEN LET quantity == pos[s].quantity
                 average_cost == pos[s].average_cost
                 current_value == quantity * current_prices[s]
             IN  [pos[s] EXCEPT
                    !.current_value = Rat(current_value, 1),
                    !.unrealized_pnl =
                        Rat(current_value * average_cost.den
                              - quantity * average_cost.num, average_cost.den)]
        ELSE pos[s]]

\* a per-symbol write that stores the row as the sweep read it
write_position_value_WholeRow(pos, read, symbol, current_price) ==
    LET quantity == read[symbol].quantity
        average_cost == read[symbol].average_cost
        current_value == quantity * current_price
    IN  [pos EXCEPT ![symbol] =
            [read[symbol] EXCEPT
                !.current_value = Rat(current_value, 1),
                !.unrealized_pnl =
                    Rat(current_value * average_cost.den
                          - quantity * average_cost.num, average_cost.den)]]

\* one pass of the loop of update_position_values for a symbol with a price:
\* the values computed from the row as the SELECT read it, written by
\* UPDATE positions SET current_value, unrealized_pnl WHERE agent_id, symbol,
\* which matches nothing when the row is gone
write_position_value(pos, read, symbol, current_price) ==
    LET quantity == read[symbol].quantity
        average_cost == read[symbol].average_cost
        current_value == quantity * current_price
    IN  IF pos[symbol].present
        THEN [pos EXCEPT
                ![symbol].current_value = Rat(current_value, 1),
                ![symbol].unrealized_pnl =
                    Rat(current_value * average_cost.den
                          - quantity * average_cost.num, average_cost.den)]
        ELSE pos

\* a sweep in which storage raises after the rows of the symbols in written
\* were updated: the rows written stay written
update_position_values_upto(pos, current_prices, written) ==
    [s \in Symbols |->
        IF s \in written THEN update_position_values(pos, current_prices)[s]
        ELSE pos[s]]

\* step 7 of run()
UpdatePositionValues ==
    /\ pc = "mtm"
    /\ positions' = IF test_mode THEN positions
                    ELSE update_position_values(positions, data.prices)
    /\ pc' = "key_event"
    /\ UNCHANGED <<wallets, transactions, ai_state, compliance_violations,
                   ai_token_records, key_events, today, test_mode, episode, runs, attempt,
                   decision, validation_failures, is_valid, data, result, loop0,
                   obs, calls, last>>

\* _record_key_event: the key_events log after the call
_record_key_event(events, txs, pos, d) ==
    LET buys == {i \in 1 .. Len(txs) :
                    txs[i].symbol = d.symbol /\ txs[i].action = "BUY"}
    IN  IF d.decision_type = "BUY"
        THEN IF Cardinality(buys) = 0
             THEN Append(events, [event_type |-> "first_buy", symbol |-> d.symbol])
             ELSE Append(events, [event_type |-> "add_position", symbol |-> d.symbol])
        ELSE IF d.decision_type = "SELL"
                /\ (~pos[d.symbol].present \/ pos[d.symbol].quantity = 0)
        THEN Append(events, [event_type |-> "liquidation", symbol |-> d.symbol])
        ELSE events

\* steps 8 and 9 of run(), and its return
RecordKeyEvent ==
    /\ pc = "key_event"
    /\ key_events' = IF test_mode THEN key_events
                     ELSE _record_key_event(key_events, transactions, positions,
                                            decision)
    /\ Return(TRUE)
    /\ UNCHANGED <<wallets, positions, transactions, ai_state,
                   compliance_violations, ai_token_records, today, test_mode, episode,
                   runs, attempt, decision, validation_failures, is_valid, data,
                   loop0, obs, calls, last>>

\* run() has returned; its locals are gone
FinishRun ==
    /\ pc = "done"
    /\ pc' = "idle"
    /\ attempt' = 0
    /\ decision' = NoDecision
    /\ validation_failures' = <<>>
    /\ is_valid' = FALSE
    /\ data' = NoData
    /\ result' = "none"
    /\ loop0' = Snapshot
    /\ obs' = NoObs
    /\ last' = NoCall
    /\ UNCHANGED <<tables, today, test_mode, episode, runs, calls>>

Next ==
    \/ AdvanceDay
    \/ StartRun
    \/ CheckAndResetMonthlyQuota
    \/ \E feed \in PriceFeeds : CollectMarketData(feed)
    \/ \E resp \in Responses : Attempt(resp)
    \/ \E resp \in Responses : AttemptWithReprompt(resp)
    \/ ExecuteTrade
    \/ UpdatePositionValues
    \/ RecordKeyEvent
    \/ FinishRun

Spec == Init /\ [][Next]_vars

(***************************************************************************)
(* update_position_values called directly between trades on two symbols,   *)
(* with price maps that miss symbols and a storage that can fail mid-sweep  *)
(***************************************************************************)
SweepTrades ==
    {d \in Decisions : /\ d.symbol \in Symbols
                        /\ d.quantity > 0
                        /\ d.position_type = "LONG_TERM"}

\* current_prices: symbol -> price, 0 for a symbol the map does not carry
PriceMaps == [Symbols -> {0, 1, 3}]

\* the sweep may follow the last trade the bound allows
CallUpdatePositionValues(current_prices) ==
    /\ pc = "idle"
    /\ calls <= MaxCalls
    /\ positions' = update_position_values(positions, current_prices)
    /\ last' = [op |-> "update_position_values", ret |-> TRUE,
                current_prices |-> current_prices]
    /\ calls' = calls + 1
    /\ UNCHANGED <<wallets, transactions, ai_state, compliance_violations,
                   ai_token_records, key_events, today, test_mode, episode, runvars>>

\* storage raises during the sweep: the except clause returns False
CallUpdatePositionValuesFails(current_prices, written) ==
    /\ pc = "idle"
    /\ calls <= MaxCalls
    /\ \E s \in Symbols \ written : positions[s].present
    /\ positions' = update_position_values_upto(positions, current_prices, written)
    /\ last' = [op |-> "update_position_values", ret |-> FALSE,
                current_prices |-> current_prices]
    /\ calls' = calls + 1
    /\ UNCHANGED <<wallets, transactions, ai_state, compliance_violations,
                   ai_token_records, key_events, today, test_mode, episode, runvars>>

NextSweep ==
    \/ \E d \in SweepTrades : CallExecuteTrade(d, 0)
    \/ \E current_prices \in PriceMaps : CallUpdatePositionValues(current_prices)
    \/ \E current_prices \in PriceMaps, written \in SUBSET Symbols :
          CallUpdatePositionValuesFails(current_prices, written)

SpecSweep == Init /\ [][NextSweep]_vars

(***************************************************************************)
(* One update_position_values call and one execute_trade transaction on     *)
(* the same agent, interleaved statement by statement, after a few trades.  *)
(* The sweep's SELECT and each of its UPDATEs commit on their own; the      *)
(* transaction's writes stay private until its commit, the positions row it *)
(* updated or deleted is locked until then, and an UPDATE of the sweep on a *)
(* locked row waits.                                                        *)
(***************************************************************************)
SeedTrade(d) ==
    /\ sweep.pc = "idle"
    /\ txn.pc = "idle"
    /\ CallExecuteTrade(d, 0)

\* the SELECT of update_position_values
SweepRead(current_prices) ==
    /\ pc = "idle"
    /\ sweep.pc = "idle"
    /\ sweep' = [pc |-> IF \E s \in Symbols : positions[s].present
                        THEN "writing" ELSE "done",
                 current_prices |-> current_prices,
                 positions |-> positions,
                 todo |-> {s \in Symbols : positions[s].present}]
    /\ UNCHANGED <<tables, today, test_mode, runvars, calls, last, txn, clients>>

\* one pass of the loop: a symbol without a price is skipped
SweepWrite(symbol) ==
    /\ sweep.pc = "writing"
    /\ symbol \in sweep.todo
    /\ symbol \notin txn.locked
    /\ positions' =
          IF sweep.current_prices[symbol] = 0 THEN positions
          ELSE write_position_value(positions, sweep.positions, symbol,
                                    sweep.current_prices[symbol])
    /\ sweep' = [sweep EXCEPT !.todo = @ \ {symbol},
                              !.pc = IF sweep.todo = {symbol}
                                     THEN "done" ELSE "writing"]
    /\ UNCHANGED <<wallets, transactions, ai_state, compliance_violations,
                   ai_token_records, key_events, today, test_mode, runvars,
                   calls, last, txn, clients>>

\* the statements of the with-block of execute_trade, run on the committed
\* rows; their writes are private to the transaction
BeginTrade(d) ==
    /\ pc = "idle"
    /\ txn.pc = "idle"
    /\ txn' = [pc |-> "open", d |-> d,
               locked |-> IF TradeWork(DB, d, today, 0).db.positions = positions
                          THEN {} ELSE {s \in {d.symbol} : positions[s].present},
               ret |-> FALSE, before |-> DB,
               work |-> TradeWork(DB, d, today, 0)]
    /\ UNCHANGED <<tables, today, test_mode, runvars, calls, last, sweep, clients>>

\* the end of the with-block: commit, or roll back when the body failed.  The
\* transaction wrote one positions row, the wallet, one transactions row and
\* the quota; the other positions rows are as the sweep left them
CommitTrade ==
    /\ txn.pc = "open"
    /\ LET symbol == txn.d.symbol
           after == transaction(txn.before, txn.work)
       IN  /\ wallets' = after.wallets
           /\ transactions' = after.transactions
           /\ ai_state' = after.ai_state
           /\ positions' = IF txn.work.ok
                           THEN [positions EXCEPT ![symbol] = after.positions[symbol]]
                           ELSE positions
    /\ txn' = [txn EXCEPT !.pc = "done", !.locked = {}, !.ret = txn.work.ok]
    /\ UNCHANGED <<compliance_violations, ai_token_records, key_events, today,
                   test_mode, runvars, calls, last, sweep, clients>>

NextConcurrent ==
    \/ \E d \in SweepTrades : SeedTrade(d)
    \/ \E current_prices \in PriceMaps : SweepRead(current_prices)
    \/ \E symbol \in Symbols : SweepWrite(symbol)
    \/ \E d \in SweepTrades : BeginTrade(d)
    \/ CommitTrade

SpecConcurrent == Init /\ [][NextConcurrent]_vars

(***************************************************************************)
(* run() of a workflow started with --test-mode                            *)
(***************************************************************************)
InitTestMode ==
    \E u \in InitialUsed :
        InitRowsIn([InitialState EXCEPT !.monthly_trade_quota.used = u,
                                        !.monthly_trade_quota.month = MonthLabel(0)],
                   TRUE)

SpecTestMode == InitTestMode /\ [][Next]_vars

(***************************************************************************)
(* MemoryManager.update_wallet called directly, between trades             *)
(***************************************************************************)
\* UPDATE wallets SET cash_balance = cash_balance + %s,
\*                    long_term_cash = long_term_cash + %s,
\*                    short_term_cash = short_term_cash + %s WHERE agent_id
update_wallet(w, cash_change, long_term_change, short_term_change) ==
    [w EXCEPT !.cash_balance = @ + cash_change,
              !.long_term_cash = @ + long_term_change,
              !.short_term_cash = @ + short_term_change]

\* cash_change, long_term_change, short_term_change: any numbers, each
\* defaulting to 0
WalletChanges == {-1, 0, 1}

\* fault: execute_update raises, the except clause returns False
UpdateWallet(cash_change, long_term_change, short_term_change, fault) ==
    /\ pc = "idle"
    /\ calls < MaxCalls
    /\ wallets' = IF fault THEN wallets
                  ELSE update_wallet(wallets, cash_change, long_term_change,
                                     short_term_change)
    /\ last' = [op |-> "update_wallet", ret |-> ~fault,
                cash_change |-> cash_change,
                long_term_change |-> long_term_change,
                short_term_change |-> short_term_change]
    /\ calls' = calls + 1
    /\ UNCHANGED <<positions, transactions, ai_state, compliance_violations,
                   ai_token_records, key_events, today, test_mode, episode, runvars>>

NextWallet ==
    \/ \E cash_change \in WalletChanges, long_term_change \in WalletChanges,
          short_term_change \in WalletChanges, fault \in StorageFaults :
          UpdateWallet(cash_change, long_term_change, short_term_change, fault)
    \/ \E d \in SweepTrades : ExecuteDecision(d, 0)

SpecWallet == Init /\ [][NextWallet]_vars

(***************************************************************************)
(* A caller that loads the ai_state row and later updates it under the     *)
(* version it loaded, while other writers work on the same row: a second   *)
(* such caller, update_ai_state with or without a version, the monthly     *)
(* quota reset, and execute_trade                                          *)
(***************************************************************************)
\* load_ai_state by caller c: it keeps the row it got, state_version included
LoadState(c) ==
    /\ pc = "idle"
    /\ clients[c].pc = "idle"
    /\ ai_state' = load_ai_state(ai_state)
    /\ clients' = [clients EXCEPT ![c].pc = "loaded",
                                  ![c].seen.ai_state = load_ai_state(ai_state)]
    /\ UNCHANGED <<wallets, positions, transactions, compliance_violations,
                   ai_token_records, key_events, today, test_mode, sweep, txn,
                   runvars, calls, last>>

\* update_ai_state(agent_id, updates, current_version) by caller c, with the
\* version it loaded
UpdateLoaded(c, updates) ==
    /\ clients[c].pc = "loaded"
    /\ LET r == update_ai_state(ai_state, updates,
                                {clients[c].seen.ai_state.state_version}, FALSE)
       IN  /\ ai_state' = r.state
           /\ clients' = [clients EXCEPT ![c].pc = "updated", ![c].ret = r.ret]
    /\ UNCHANGED <<wallets, positions, transactions, compliance_violations,
                   ai_token_records, key_events, today, test_mode, sweep, txn,
                   runvars, calls, last>>

\* the other writers of update_ai_state pass no version, or the current one
NextStale ==
    \/ \E c \in Clients : LoadState(c)
    \/ \E c \in Clients, updates \in Patches : UpdateLoaded(c, updates)
    \/ \E updates \in Patches, current_version \in {{}, {ai_state.state_version}} :
          UpdateAiState(updates, current_version, FALSE)
    \/ \E m \in MonthStarts : ResetMonthlyTradeQuota(MonthLabel(m))
    \/ \E d \in SeedTrades : CallExecuteTrade(d, 0)

SpecStale == Init /\ [][NextStale]_vars

(***************************************************************************)
(* Two execute_trade transactions on the same agent that overlap.  Each    *)
(* runs its SELECT on the committed rows, without a lock; its first write  *)
(* is on the positions row it read, so the writes of one transaction run   *)
(* as a block, after the other's commit when both have begun.  An UPDATE   *)
(* or DELETE finds the row by its key and writes the values computed from  *)
(* the SELECT; the wallet and the quota are updated relative to the row as *)
(* it is then.                                                             *)
(***************************************************************************)
\* _execute_buy from its first write on, on the committed rows db, after its
\* SELECT returned existing_position
_execute_buy_writes(db, existing_position, d, date) ==
    IF d.symbol = Absent \/ d.position_type = Absent
    THEN Failed(db)
    ELSE
    LET symbol == d.symbol
        quantity == d.quantity
        price == d.price
        position_type == d.position_type
        total_amount == quantity * price
        old_quantity == existing_position.quantity
        old_avg_cost == existing_position.average_cost
        new_quantity == old_quantity + quantity
        new_avg_cost ==
            Rat(old_quantity * old_avg_cost.num + total_amount * old_avg_cost.den,
                old_avg_cost.den * new_quantity)
        row == db.positions[symbol]
        db1 == IF existing_position.present
               THEN IF row.present                   \* UPDATE ... WHERE symbol
                    THEN [db EXCEPT !.positions[symbol].quantity = new_quantity,
                                    !.positions[symbol].average_cost = new_avg_cost]
                    ELSE db
               ELSE [db EXCEPT !.positions[symbol] =
                        [present |-> TRUE, quantity |-> quantity,
                         average_cost |-> Rat(price, 1),
                         position_type |-> position_type,
                         first_buy_date |-> date,
                         current_value |-> Null, unrealized_pnl |-> Null]]
        db2 == [db1 EXCEPT !.wallets = BuyWallet(@, position_type, total_amount)]
        db3 == _record_transaction(db2, d, "BUY", total_amount)
    IN  IF existing_position.present
           /\ existing_position.position_type # position_type
        THEN Failed(db)
        ELSE IF existing_position.present /\ new_quantity = 0
        THEN Failed(db)
        ELSE IF ~existing_position.present /\ row.present
        THEN Failed(db)                              \* INSERT of a key that exists
        ELSE Done(db3)

\* _execute_sell from its first write on, after its SELECT returned position
_execute_sell_writes(db, position, d) ==
    IF d.symbol = Absent
    THEN Failed(db)
    ELSE
    LET symbol == d.symbol
        quantity == d.quantity
        price == d.price
        total_amount == quantity * price
        current_quantity == position.quantity
        position_type == position.position_type
        new_quantity == current_quantity - quantity
        row == db.positions[symbol]
        db1 == IF ~row.present THEN db               \* no row matches
               ELSE IF new_quantity > 0
               THEN [db EXCEPT !.positions[symbol].quantity = new_quantity]
               ELSE [db EXCEPT !.positions[symbol] = NoRow]
        db2 == [db1 EXCEPT !.wallets = SellWallet(@, position_type, total_amount)]
        db3 == _record_transaction(db2, [d EXCEPT !.position_type = position_type],
                                   "SELL", total_amount)
    IN  IF ~position.present
        THEN Failed(db)
        ELSE IF insufficient_quantity(quantity, current_quantity)
        THEN Failed(db)
        ELSE Done(db3)

\* the with-block of execute_trade from its first write on
TradeWrites(db, read, d, date) ==
    LET success == IF d.decision_type = "BUY"
                   THEN _execute_buy_writes(db, read, d, date)
                   ELSE _execute_sell_writes(db, read, d)
    IN  IF d.decision_type \notin {"BUY", "SELL"}
        THEN Failed(db)
        ELSE IF ~success.ok THEN success
        ELSE Done(_update_trade_quota(success.db))

OverlapTrades ==
    {d \in Decisions : /\ d.symbol \in StockPool
                        /\ d.quantity > 0
                        /\ d.price = 1
                        /\ d.position_type = "LONG_TERM"}

\* a trade that is over before the two callers begin
EarlierTrade(d) ==
    /\ \A c \in Clients : clients[c].pc = "idle"
    /\ CallExecuteTrade(d, 0)

\* caller c enters execute_trade(d): the SELECT on positions
TradeSelect(c, d) ==
    /\ pc = "idle"
    /\ clients[c].pc = "idle"
    /\ clients' = [clients EXCEPT ![c].pc = "selected", ![c].d = d,
                                  ![c].seen.positions = positions]
    /\ UNCHANGED <<tables, today, test_mode, sweep, txn, runvars, calls, last>>

\* caller c writes and leaves the with-block: commit, or rollback
TradeCommit(c) ==
    /\ clients[c].pc = "selected"
    /\ LET d == clients[c].d
           work == TradeWrites(DB, clients[c].seen.positions[d.symbol], d, today)
           after == transaction(DB, work)
       IN  /\ wallets' = after.wallets
           /\ positions' = after.positions
           /\ transactions' = after.transactions
           /\ ai_state' = after.ai_state
           /\ clients' = [clients EXCEPT ![c].pc = "done", ![c].ret = work.ok]
    /\ UNCHANGED <<compliance_violations, ai_token_records, key_events, today,
                   test_mode, sweep, txn, runvars, calls, last>>

NextOverlap ==
    \/ \E d \in OverlapTrades : EarlierTrade(d)
    \/ \E c \in Clients, d \in OverlapTrades : TradeSelect(c, d)
    \/ \E c \in Clients : TradeCommit(c)

SpecOverlap == Init /\ [][NextOverlap]_vars

(***************************************************************************)
(* Two runs of the workflow on the same agent that overlap, step by step:  *)
(* the month check, the reset, the quota check of step 2, the attempts of  *)
(* the loop and execute_trade.  Steps 7 to 9 write no quota and are left   *)
(* out, and every oracle reply is a BUY or a SELL.                         *)
(***************************************************************************)
\* the run of caller c begins: the trading-day check, and the read of
\* _check_and_reset_monthly_quota
RunCheckMonth(c) ==
    /\ pc = "idle"
    /\ clients[c].pc = "idle"
    /\ clients' = IF ~is_trading_day(today)
                  THEN [clients EXCEPT ![c].pc = "done", ![c].ret = TRUE]
                  ELSE [clients EXCEPT ![c].pc = "checked",
                                       ![c].seen.ai_state = ai_state]
    /\ UNCHANGED <<tables, today, test_mode, sweep, txn, runvars, calls, last>>

\* the write of _check_and_reset_monthly_quota, decided by the label read
RunResetMonth(c) ==
    /\ clients[c].pc = "checked"
    /\ ai_state' =
          IF clients[c].seen.ai_state.monthly_trade_quota.month # MonthLabel(today)
          THEN reset_monthly_trade_quota(ai_state, MonthLabel(today))
          ELSE ai_state
    /\ clients' = [clients EXCEPT ![c].pc = "collect"]
    /\ UNCHANGED <<wallets, positions, transactions, compliance_violations,
                   ai_token_records, key_events, today, test_mode, sweep, txn,
                   runvars, calls, last>>

\* steps 1 and 2: the quota as collected ends the run when it is used up
RunCollect(c) ==
    /\ clients[c].pc = "collect"
    /\ clients' =
          IF ai_state.monthly_trade_quota.used >= ai_state.monthly_trade_quota.limit
          THEN [clients EXCEPT ![c].pc = "done", ![c].ret = TRUE]
          ELSE [clients EXCEPT ![c].pc = "generate", ![c].attempt = 1]
    /\ UNCHANGED <<tables, today, test_mode, sweep, txn, runvars, calls, last>>

\* one pass of the loop with the oracle's decision d
RunValidate(c, d) ==
    /\ clients[c].pc = "generate"
    /\ Len(compliance_violations) < MaxViolations
    /\ LET r == validate_decision(DB, d, today)
       IN  /\ compliance_violations' = AuditLog(compliance_violations, r, test_mode)
           /\ clients' =
                 IF r.is_valid
                 THEN [clients EXCEPT ![c].pc = "execute", ![c].d = d]
                 ELSE IF clients[c].attempt < max_attempts
                 THEN [clients EXCEPT ![c].attempt = @ + 1]
                 ELSE [clients EXCEPT ![c].pc = "done", ![c].ret = TRUE]
    /\ UNCHANGED <<ledger, ai_token_records, key_events, today, test_mode, sweep,
                   txn, runvars, calls, last>>

\* step 6
RunExecute(c) ==
    /\ clients[c].pc = "execute"
    /\ LET r == execute_trade(DB, clients[c].d, today, 0)
       IN  /\ wallets' = r.db.wallets
           /\ positions' = r.db.positions
           /\ transactions' = r.db.transactions
           /\ ai_state' = r.db.ai_state
           /\ clients' = [clients EXCEPT ![c].pc = "done", ![c].ret = r.ret]
    /\ UNCHANGED <<compliance_violations, ai_token_records, key_events, today,
                   test_mode, sweep, txn, runvars, calls, last>>

\* days pass between runs
DayPasses ==
    /\ \A c \in Clients : clients[c].pc = "idle"
    /\ AdvanceDay

NextOverlapRuns ==
    \/ DayPasses
    \/ \E c \in Clients : RunCheckMonth(c)
    \/ \E c \in Clients : RunResetMonth(c)
    \/ \E c \in Clients : RunCollect(c)
    \/ \E c \in Clients, d \in OverlapTrades : RunValidate(c, d)
    \/ \E c \in Clients : RunExecute(c)

SpecOverlapRuns == Init /\ [][NextOverlapRuns]_vars

(***************************************************************************)
(* Steps 5 and 6 of a run on any decision the oracle can hand over, its    *)
(* quantity of either sign: validate_decision, and execute_trade when the  *)
(* decision passed                                                         *)
(***************************************************************************)
ValidateThenExecute(d) ==
    /\ pc = "idle"
    /\ calls < MaxCalls
    /\ LET v == validate_decision(DB, d, today)
           r == execute_trade(DB, d, today, 0)
       IN  /\ compliance_violations' = AuditLog(compliance_violations, v, test_mode)
           /\ IF v.is_valid
              THEN /\ wallets' = r.db.wallets
                   /\ positions' = r.db.positions
                   /\ transactions' = r.db.transactions
                   /\ ai_state' = r.db.ai_state
                   /\ last' = Call("execute_trade", d, 0, positions, r.ret,
                                   "NONE", v.reads)
              ELSE /\ UNCHANGED ledger
                   /\ last' = Call("validate_decision", d, 0, positions, FALSE,
                                   v.violation_type, v.reads)
    /\ decision' = d
    /\ calls' = calls + 1
    /\ UNCHANGED <<ai_token_records, key_events, today, test_mode, episode, pc,
                   runs, attempt, validation_failures, is_valid, data, result,
                   loop0, obs>>

NextValidated ==
    \/ AdvanceDay
    \/ \E d \in Decisions : ValidateThenExecute(d)

SpecValidated == InitValidator /\ [][NextValidated]_vars

(***************************************************************************)
(* One holding over its life: bought, added to, marked to market, sold in  *)
(* part or in whole and bought again, on days a month apart                *)
(***************************************************************************)
\* one trade more than the direct calls counted elsewhere: a holding that is
\* opened, closed and opened again takes three
TradeOnHolding(d) ==
    /\ pc = "idle"
    /\ calls <= MaxCalls
    /\ LET r == execute_trade(DB, d, today, 0)
       IN  /\ wallets' = r.db.wallets
           /\ positions' = r.db.positions
           /\ transactions' = r.db.transactions
           /\ ai_state' = r.db.ai_state
           /\ last' = Call("execute_trade", d, 0, positions, r.ret, "NONE", <<>>)
    /\ decision' = d
    /\ calls' = calls + 1
    /\ UNCHANGED <<compliance_violations, ai_token_records, key_events, today,
                   test_mode, episode, pc, runs, attempt, validation_failures, is_valid,
                   data, result, loop0, obs>>

NextHolding ==
    \/ AdvanceDay
    \/ \E d \in OverlapTrades : TradeOnHolding(d)
    \/ \E current_prices \in PriceMaps : CallUpdatePositionValues(current_prices)

SpecHolding == Init /\ [][NextHolding]_vars

(***************************************************************************)
(* run() with an oracle that also answers with JSON that is no decision    *)
(* object, a data collection that can fail and a storage that can fail     *)
(* inside execute_trade                                                    *)
(***************************************************************************)
\* the well-formed decisions this oracle proposes
PlainDecisions ==
    {d \in OracleDecisions : d.quantity > 0 /\ d.price = 1}

PlainResponses ==
    [kind : {"fail", "unparseable", "HOLD"}, d : {NoDecision}]
    \cup [kind : {"decision"}, d : PlainDecisions]

\* BUY decisions whose quantity is a JSON string or null
MistypedDecisions == {d \in PlainDecisions : d.decision_type = "BUY"}

\* a run that goes on to report success when no data could be collected
CollectMarketDataFails_Ignored ==
    /\ pc = "collect"
    /\ obs' = [obs EXCEPT !.outcome = "COLLECT_FAILED"]
    /\ Return(TRUE)
    /\ UNCHANGED <<tables, today, test_mode, episode, runs, attempt, decision,
                   validation_failures, is_valid, data, loop0, calls, last>>

\* _collect_market_data returns None
CollectMarketDataFails ==
    /\ pc = "collect"
    /\ obs' = [obs EXCEPT !.outcome = "COLLECT_FAILED"]
    /\ Return(FALSE)
    /\ UNCHANGED <<tables, today, test_mode, episode, runs, attempt, decision,
                   validation_failures, is_valid, data, loop0, calls, last>>

\* storage is unavailable while data is collected: get_wallet returns None and
\* the quota getter its default, _build_decision_prompt of the first attempt
\* raises TypeError on wallet['cash_balance'] before the oracle is called,
\* caught by run()
BuildDecisionPromptRaises ==
    /\ pc = "collect"
    /\ obs' = [obs EXCEPT !.outcome = "STORAGE_UNAVAILABLE"]
    /\ Return(FALSE)
    /\ UNCHANGED <<tables, today, test_mode, episode, runs, attempt, decision,
                   validation_failures, is_valid, data, loop0, calls, last>>

\* the month has changed and storage raises in reset_monthly_trade_quota:
\* update_ai_state returns False, the step logs a warning and run() goes on
\* under the old quota
CheckAndResetMonthlyQuotaFails ==
    /\ pc = "reset"
    /\ ai_state.monthly_trade_quota.month # MonthLabel(today)
    /\ obs' = [obs EXCEPT !.reset = "FAILED"]
    /\ pc' = "collect"
    /\ UNCHANGED <<tables, today, test_mode, episode, runs, attempt, decision,
                   validation_failures, is_valid, data, result, loop0, calls,
                   last>>

\* the response parses to a JSON array or a non-zero scalar: decision.get
\* raises AttributeError in _generate_decision, caught by run()
AttemptNotObject ==
    /\ pc = "generate"
    /\ ai_token_records' = ai_token_records \cup {today}
    /\ obs' = [obs EXCEPT !.oracle = @ + 1, !.response = "not_object",
                          !.outcome = "RAISED"]
    /\ Return(FALSE)
    /\ UNCHANGED <<ledger, compliance_violations, key_events, today, test_mode, episode,
                   runs, attempt, decision, validation_failures, is_valid, data,
                   loop0, calls, last>>

\* the response is a BUY whose quantity is not a number: the stock-pool and
\* quota rules run as usual, then quantity * price raises TypeError in
\* _validate_wallet_balance before its try block, caught by run()
AttemptMistyped(d) ==
    LET r1 == _validate_stock_pool(d)
        r2 == _validate_trade_quota(ai_state, d)
        r == IF ~r1.is_valid THEN r1 ELSE r2
    IN  /\ pc = "generate"
        /\ ai_token_records' = ai_token_records \cup {today}
        /\ IF ~r.is_valid
           THEN /\ compliance_violations' =
                       AuditLog(compliance_violations, r, test_mode)
                /\ obs' = [obs EXCEPT !.oracle = @ + 1, !.response = "mistyped",
                                      !.validate = @ + 1, !.outcome = "REJECTED"]
                /\ validation_failures' = Append(validation_failures,
                       [attempt |-> attempt, violation_type |-> r.violation_type])
                /\ is_valid' = FALSE
                /\ NextAttempt
           ELSE /\ obs' = [obs EXCEPT !.oracle = @ + 1, !.response = "mistyped",
                                      !.validate = @ + 1, !.outcome = "RAISED"]
                /\ Return(FALSE)
                /\ UNCHANGED <<compliance_violations, validation_failures,
                               is_valid, attempt>>
        /\ UNCHANGED <<ledger, key_events, today, test_mode, episode, runs, decision,
                       data, loop0, calls, last>>

NextFaulty ==
    \/ AdvanceDay
    \/ StartRun
    \/ CheckAndResetMonthlyQuota
    \/ CheckAndResetMonthlyQuotaFails
    \/ \E feed \in PriceFeeds : CollectMarketData(feed)
    \/ CollectMarketDataFails
    \/ BuildDecisionPromptRaises
    \/ \E resp \in PlainResponses : Attempt(resp)
    \/ \E resp \in PlainResponses : AttemptWithReprompt(resp)
    \/ AttemptNotObject
    \/ \E d \in MistypedDecisions : AttemptMistyped(d)
    \/ \E fault \in Faults : ExecuteTradeWith(fault)
    \/ UpdatePositionValues
    \/ RecordKeyEvent
    \/ FinishRun

SpecFaulty == Init /\ [][NextFaulty]_vars

\* run() is straight-line code with bounded calls: once entered, it takes
\* its next step
RunStep == pc # "idle" /\ NextFaulty

SpecTerminating == Init /\ [][NextFaulty]_vars /\ WF_vars(RunStep)

(***************************************************************************)
(* Properties                                                              *)
(***************************************************************************)
used == ai_state.monthly_trade_quota.used

\* the step is a direct call of execute_trade
ExecuteStep == calls' = calls + 1 /\ last'.op = "execute_trade"

\* C1: in every state reached by execute_trade calls, succeeding or failing,
\* cash_balance = long_term_cash + short_term_cash + reserved_cash.
C1_WalletSplitSum ==
    wallets.cash_balance =
        wallets.long_term_cash + wallets.short_term_cash + wallets.reserved_cash

C1_Witness ==
    /\ last.op = "execute_trade"
    /\ Len(transactions) = 2
    /\ transactions[1].action = "BUY"
    /\ transactions[2].action = "SELL"
    /\ wallets.cash_balance # 7

\* the four changes of one trade, read off the new transactions row
Committed ==
    LET t == transactions'[Len(transactions')]
        sign == IF t.action = "BUY" THEN 1 ELSE -1
        quantity_after == IF positions'[t.symbol].present
                          THEN positions'[t.symbol].quantity ELSE 0
    IN  /\ Len(transactions') = Len(transactions) + 1
        /\ SubSeq(transactions', 1, Len(transactions)) = transactions
        /\ t.total_amount = t.quantity * t.price
        /\ wallets'.cash_balance = wallets.cash_balance - sign * t.total_amount
        /\ quantity_after = last'.held + sign * t.quantity
        /\ used' = used + 1

\* C2: execute_trade is all-or-nothing: a call that returns False, whatever
\* step failed, leaves wallets, positions, transactions and ai_state as they
\* were; a call that returns True has committed all four changes; the quota
\* count never runs apart from the transactions log.
C2_AllOrNothing ==
    /\ [][ExecuteStep => IF last'.ret THEN Committed ELSE UNCHANGED ledger]_vars
    /\ [](\E u \in InitialUsed : used = u + Len(transactions))

C2_Witness ==
    /\ last.op = "execute_trade"
    /\ last.fault = 4
    /\ ~last.ret

\* C3: no position row has quantity <= 0 after any sequence of decisions that
\* passed validate_decision and were applied by execute_trade, and a SELL of
\* exactly the held quantity deletes the row.
C3_PositiveQuantity ==
    /\ \A s \in Symbols : positions[s].present => positions[s].quantity > 0
    /\ (/\ obs.outcome = "EXECUTED"
        /\ decision.decision_type = "SELL"
        /\ obs.present
        /\ decision.quantity = obs.held)
       => ~positions[decision.symbol].present

\* C4: a SELL of more than is held, or of a symbol without a position, makes
\* execute_trade return False and leaves wallets, positions, transactions and
\* ai_state unchanged.
C4_OversellRejected ==
    [][(/\ ExecuteStep
        /\ last'.decision_type = "SELL"
        /\ (~last'.present \/ last'.quantity > last'.held))
       => (~last'.ret /\ UNCHANGED ledger)]_vars

C4_Witness ==
    /\ last.op = "execute_trade"
    /\ last.decision_type = "SELL"
    /\ last.present
    /\ last.quantity > last.held
    /\ ~last.ret
    /\ Len(transactions) = 1

SameRule(failures) ==
    \A i, j \in 1 .. Len(failures) :
        failures[i].violation_type = failures[j].violation_type

LedgerAsAtLoopStart ==
    /\ wallets = loop0.wallets
    /\ positions = loop0.positions
    /\ transactions = loop0.transactions
    /\ ai_state = loop0.ai_state

C6_RetryConvergence ==
    (pc = "done" /\ Len(validation_failures) = 2 /\ obs.passed = 3)
    => /\ validation_failures[1].attempt = 1
       /\ validation_failures[2].attempt = 2
       /\ Len(compliance_violations) = loop0.violations + 2
       /\ obs.execute = 1
       /\ Len(transactions) = Len(loop0.transactions) + 1
       /\ used = loop0.ai_state.monthly_trade_quota.used + 1

C8_ExecuteOnce ==
    /\ [](obs.execute <= 1)
    /\ [](pc = "execute"
            => /\ is_valid
               /\ obs.outcome = "PASSED"
               /\ obs.passed = attempt
               /\ obs.execute = 0
               /\ validate_decision(DB, decision, today).is_valid)
    /\ [](pc \in {"mtm", "key_event"} => obs.outcome = "EXECUTED")
    /\ [][obs.execute = 1 /\ pc' # "idle"
          => obs'.oracle = obs.oracle /\ obs'.validate = obs.validate]_vars
    /\ [][key_events' # key_events
          => pc = "key_event" /\ obs.outcome = "EXECUTED"]_vars
    /\ [][(\E s \in Symbols :
             /\ positions[s].present /\ positions'[s].present
             /\ positions'[s].current_value # positions[s].current_value)
          => pc = "mtm" /\ obs.outcome = "EXECUTED"]_vars

C8_Witness ==
    /\ pc = "done"
    /\ obs.execute = 1
    /\ obs.outcome = "EXECUTED"
    /\ Len(key_events) = 1
    /\ positions["AAPL"].current_value # Null

\* C9: when the oracle's response parses to HOLD the run ends at once with
\* True: the response is not validated, no oracle call follows, no
\* compliance_violations row is written for it, and wallets, positions,
\* transactions and quota are unchanged.
C9_HoldEndsRun ==
    /\ [](obs.response = "HOLD"
            => /\ pc = "done"
               /\ result = TRUE
               /\ obs.execute = 0
               /\ obs.validate = Len(validation_failures)
               /\ Len(compliance_violations) =
                      loop0.violations + Len(validation_failures)
               /\ LedgerAsAtLoopStart)
    /\ [][obs'.response = "HOLD" /\ pc = "generate"
          => /\ obs'.validate = obs.validate
             /\ UNCHANGED <<ledger, compliance_violations>>]_vars
    /\ [][obs.response = "HOLD" => pc' = "idle"]_vars

C9_Witness ==
    /\ obs.response = "HOLD"
    /\ obs.oracle = 2
    /\ attempt = 2
    /\ Len(validation_failures) = 1

QuotaExhausted == used >= ai_state.monthly_trade_quota.limit

ReadsLedger(reads) ==
    \E i \in 1 .. Len(reads) : reads[i] \in {"wallets", "positions"}

\* C10 as claimed: with used >= limit, validate_decision rejects every BUY and
\* SELL with TRADE_QUOTA_EXCEEDED without reading wallets or positions.
C10_QuotaGateAlways ==
    (last.op = "validate_decision" /\ QuotaExhausted)
    => /\ ~last.ret
       /\ last.violation_type = "TRADE_QUOTA_EXCEEDED"
       /\ ~ReadsLedger(last.reads)

\* C10 amended: with used >= limit, validate_decision rejects every BUY and
\* SELL without reading wallets or positions; the kind is
\* TRADE_QUOTA_EXCEEDED when the decision names a symbol of the stock pool,
\* and the stock-pool rule's MISSING_SYMBOL or INVALID_STOCK otherwise.
C10_QuotaGate ==
    (last.op = "validate_decision" /\ QuotaExhausted)
    => /\ ~last.ret
       /\ ~ReadsLedger(last.reads)
       /\ last.violation_type =
              IF last.symbol = Absent THEN "MISSING_SYMBOL"
              ELSE IF last.symbol \notin StockPool THEN "INVALID_STOCK"
              ELSE "TRADE_QUOTA_EXCEEDED"

C10_Witness ==
    /\ last.op = "validate_decision"
    /\ used = 5
    /\ ai_state.monthly_trade_quota.limit = 5
    /\ last.violation_type = "TRADE_QUOTA_EXCEEDED"
    /\ last.decision_type = "BUY"

\* the step is a direct call of validate_decision
ValidateStep == calls' = calls + 1 /\ last'.op = "validate_decision"

\* the verdict of rule i of the chain on decision d in the current state
Rule(i, d) ==
    CASE i = 1 -> _validate_stock_pool(d)
      [] i = 2 -> _validate_trade_quota(ai_state, d)
      [] i = 3 -> _validate_wallet_balance(wallets, d)
      [] i = 4 -> _validate_wash_trade(positions, d, today)

\* the rules that apply to d: solvency to a BUY, holding period to a SELL
Applicable(d) ==
    {1, 2} \cup (IF d.decision_type = "BUY" THEN {3} ELSE {})
           \cup (IF d.decision_type = "SELL" THEN {4} ELSE {})

FailingRules(d) == {i \in Applicable(d) : ~Rule(i, d).is_valid}

FirstFailure(d) ==
    CHOOSE i \in FailingRules(d) : \A j \in FailingRules(d) : i <= j

\* the tables queried by the applicable rules 1 .. k, in order
RECURSIVE ReadsUpTo(_, _)
ReadsUpTo(k, d) ==
    IF k = 0 THEN <<>>
    ELSE ReadsUpTo(k - 1, d)
         \o (IF k \in Applicable(d) THEN Rule(k, d).reads ELSE <<>>)

\* C11: validate_decision runs stock pool, quota, solvency (BUY), holding
\* period (SELL) in this order: it returns the violation kind of the first
\* applicable rule that fails, having queried nothing a later rule reads, and
\* returns Ok exactly when no applicable rule fails.
C11_RuleOrder ==
    [][ValidateStep
       => LET d == decision'
          IN  IF FailingRules(d) = {}
              THEN /\ last'.ret
                   /\ last'.violation_type = "NONE"
                   /\ last'.reads = ReadsUpTo(4, d)
              ELSE /\ ~last'.ret
                   /\ last'.violation_type = Rule(FirstFailure(d), d).violation_type
                   /\ last'.reads = ReadsUpTo(FirstFailure(d), d)]_vars

C11_Witness ==
    /\ last.op = "validate_decision"
    /\ decision.decision_type = "BUY"
    /\ last.violation_type = "INSUFFICIENT_LONG_TERM_CASH"
    /\ last.reads = <<"stocks", "ai_state", "wallets">>
    /\ ai_state.monthly_trade_quota.used = 4

AuditRow(violation_type) ==
    [violation_type |-> violation_type,
     detection_method |-> "PRE_EXECUTION_CHECK", severity |-> "blocked"]

\* C12: outside test mode a validate_decision call that returns a rejection
\* has appended exactly one compliance_violations row with the returned kind,
\* PRE_EXECUTION_CHECK and blocked, also when the audit write fails; a call
\* that returns Ok appends none.
C12_RejectionAudited ==
    [][(ValidateStep /\ ~test_mode)
       => IF last'.ret
          THEN UNCHANGED compliance_violations
          ELSE compliance_violations' =
                   Append(compliance_violations, AuditRow(last'.violation_type))]_vars

\* C13: validate_decision, whatever it returns, leaves wallets, positions,
\* transactions and ai_state unchanged; it writes at most one
\* compliance_violations row and nothing else.
C13_ValidatorFrame ==
    [][ValidateStep
       => /\ UNCHANGED <<wallets, positions, transactions, ai_state,
                         ai_token_records, key_events>>
          /\ \/ UNCHANGED compliance_violations
             \/ /\ Len(compliance_violations') = Len(compliance_violations) + 1
                /\ SubSeq(compliance_violations', 1, Len(compliance_violations))
                       = compliance_violations]_vars

C13_Witness ==
    /\ last.op = "validate_decision"
    /\ last.ret
    /\ decision.decision_type = "BUY"
    /\ decision.quantity * decision.price > 0
    /\ Len(transactions) = 1

\* C14: with the stock-pool and quota rules passing, a SELL of a LONG_TERM
\* position is rejected with WASH_TRADE_VIOLATION exactly when today minus
\* first_buy_date is below 30 days, and accepted otherwise; a SELL of a
\* SHORT_TERM position is accepted.
C14_HoldingPeriod ==
    [][(/\ ValidateStep
        /\ decision'.decision_type = "SELL"
        /\ decision'.symbol \in StockPool
        /\ positions[decision'.symbol].present
        /\ ~QuotaExhausted)
       => LET position == positions[decision'.symbol]
              holding_days == today - position.first_buy_date
          IN  IF position.position_type = "LONG_TERM" /\ holding_days < 30
              THEN ~last'.ret /\ last'.violation_type = "WASH_TRADE_VIOLATION"
              ELSE last'.ret /\ last'.violation_type = "NONE"]_vars

C14_Witness ==
    /\ last.op = "validate_decision"
    /\ decision.decision_type = "SELL"
    /\ last.ret
    /\ last.present
    /\ positions[decision.symbol].position_type = "LONG_TERM"
    /\ today - positions[decision.symbol].first_buy_date = 30

\* BUY quantity @ price of AAPL into the LONG_TERM account
BuyAAPL(quantity, price) ==
    [decision_type |-> "BUY", symbol |-> "AAPL", quantity |-> quantity,
     price |-> price, position_type |-> "LONG_TERM"]

\* the AAPL row after BUY 10 @ 100 then BUY 10 @ 200 on the current rows
TwoBuys ==
    LET first == execute_trade(DB, BuyAAPL(10, 100), today, 0)
        second == execute_trade(first.db, BuyAAPL(10, 200), today, 0)
    IN  [ret |-> first.ret /\ second.ret, row |-> second.db.positions["AAPL"]]

\* C15: a successful BUY of q @ p on an existing position (old_qty, old_avg)
\* yields quantity old_qty + q and average_cost
\* (old_qty*old_avg + q*p)/(old_qty + q); a SELL that leaves the row keeps
\* its average_cost; BUY 10 @ 100 then BUY 10 @ 200 yields 20 @ 150.
C15_WeightedAverage ==
    /\ [][(ExecuteStep /\ last'.ret /\ last'.present)
          => LET t == transactions'[Len(transactions')]
                 old == positions[t.symbol]
                 new == positions'[t.symbol]
             IN  IF t.action = "BUY"
                 THEN /\ new.present
                      /\ new.quantity = old.quantity + t.quantity
                      /\ new.average_cost.den # 0
                      /\ new.average_cost.num
                             * (old.average_cost.den * (old.quantity + t.quantity))
                         = new.average_cost.den
                             * (old.quantity * old.average_cost.num
                                + t.quantity * t.price * old.average_cost.den)
                 ELSE new.present => new.average_cost = old.average_cost]_vars
    /\ [](~positions["AAPL"].present
            => /\ TwoBuys.ret
               /\ TwoBuys.row.quantity = 20
               /\ TwoBuys.row.average_cost = [num |-> 150, den |-> 1])

C15_Witness ==
    /\ last.op = "execute_trade"
    /\ last.decision_type = "BUY"
    /\ last.ret
    /\ last.present
    /\ positions["AAPL"].quantity = 2
    /\ positions["AAPL"].average_cost = [num |-> 3, den |-> 2]

\* the step is a call of update_ai_state
UpdateStep == calls' = calls + 1 /\ last'.op = "update_ai_state"

\* C16: a successful update_ai_state, with or without an expected version,
\* quota resets included, whichever columns are patched, increases
\* state_version by exactly 1 and stamps last_updated; a failed one leaves
\* state_version unchanged; state_version never decreases.
C16_VersionBump ==
    /\ [][UpdateStep
          => IF last'.ret
             THEN /\ ai_state'.state_version = ai_state.state_version + 1
                  /\ ai_state'.last_updated # ai_state.last_updated
             ELSE ai_state'.state_version = ai_state.state_version]_vars
    /\ [][ai_state'.state_version >= ai_state.state_version]_vars

C16_Witness ==
    /\ last.op = "update_ai_state"
    /\ last.ret
    /\ last.current_version = {}
    /\ last.updates.keys = {"market_view"}
    /\ ai_state.state_version = 3
    /\ Len(transactions) = 0

\* C17: update_ai_state with an expected version that differs from the stored
\* state_version returns False and leaves the whole row unchanged; on a
\* missing row it returns False and creates nothing.
C17_VersionConflict ==
    [][(/\ UpdateStep
        /\ \/ ~ai_state.present
           \/ /\ last'.current_version # {}
              /\ ai_state.state_version \notin last'.current_version)
       => (~last'.ret /\ ai_state' = ai_state)]_vars

C17_Witness ==
    /\ last.op = "update_ai_state"
    /\ ~last.ret
    /\ ~last.fault
    /\ last.current_version = {1}
    /\ last.updates.keys = {"monthly_trade_quota", "market_view"}
    /\ ai_state.present
    /\ ai_state.state_version = 2

C19_OracleNeverFatal ==
    (pc = "done"
     /\ obs.response \in {"fail", "unparseable", "not_object", "mistyped"})
    => /\ result = TRUE
       /\ obs.execute = 0
       /\ LedgerAsAtLoopStart

\* C20: an attempt whose oracle call fails is counted as exhausted: below
\* attempt 3 the run goes on to the next attempt, and a run ends as no-trade
\* on a failed oracle call only at attempt 3.
C20_FailedCallConsumesAttempt ==
    /\ [][(pc = "generate" /\ obs'.oracle > obs.oracle /\ obs'.response = "fail")
          => IF attempt < 3
             THEN pc' = "generate" /\ attempt' = attempt + 1
             ELSE pc' = "done" /\ result' = TRUE]_vars
    /\ []((pc = "done" /\ obs.response = "fail") => attempt = 3)

\* C21: an attempt whose output stays unparseable after the one stricter
\* re-prompt (or whose re-prompt call fails) has made exactly two oracle
\* calls, runs no validation, records no violation and no validation failure
\* and hands over to the next attempt; every attempt makes one or two oracle
\* calls, a run makes at most 3 attempts and at most 6 oracle calls, and
\* every run that was entered returns.
C21_BoundedAttempts ==
    /\ [][(pc = "generate" /\ obs'.oracle # obs.oracle)
          => /\ obs'.oracle - obs.oracle \in {1, 2}
             /\ obs'.outcome = "PARSE_ERROR"
                => /\ obs'.oracle = obs.oracle + 2
                   /\ obs'.validate = obs.validate
                   /\ UNCHANGED <<compliance_violations, validation_failures,
                                  ledger>>
                   /\ IF attempt < max_attempts
                      THEN pc' = "generate" /\ attempt' = attempt + 1
                      ELSE pc' = "done" /\ result' = TRUE]_vars
    /\ [](/\ attempt <= max_attempts
          /\ obs.oracle <= 2 * attempt
          /\ obs.oracle <= 2 * max_attempts)
    /\ (pc \notin {"idle", "done"}) ~> (pc = "done")

C21_Witness ==
    /\ pc = "done"
    /\ obs.outcome = "PARSE_ERROR"
    /\ attempt = max_attempts
    /\ obs.oracle = 2 * max_attempts
    /\ obs.validate = 0
    /\ result = TRUE
    /\ Len(compliance_violations) = loop0.violations

\* the step is a direct call of execute_trade with the decision kept
DecisionStep == calls' = calls + 1 /\ decision'.decision_type # "HOLD"

\* C22: an execute_trade that returns True has appended exactly one
\* transactions row carrying the decision's type, symbol, quantity and price
\* and total_amount = quantity * price, has moved that amount in
\* cash_balance and in the split accounts (out for a BUY, in for a SELL) and
\* has raised monthly_trade_quota.used by exactly 1, with the quota's limit
\* and month, weekly_trade_quota and the narrative field as they were; no
\* step changes or removes an existing transactions row.
C22_TradeEffects ==
    /\ [][(DecisionStep /\ last'.ret)
          => LET total_amount == decision'.quantity * decision'.price
                 row == transactions'[Len(transactions')]
                 delta == IF decision'.decision_type = "BUY"
                          THEN -total_amount ELSE total_amount
             IN  /\ Len(transactions') = Len(transactions) + 1
                 /\ row.action = decision'.decision_type
                 /\ row.symbol = decision'.symbol
                 /\ row.quantity = decision'.quantity
                 /\ row.price = decision'.price
                 /\ row.total_amount = total_amount
                 /\ wallets'.cash_balance = wallets.cash_balance + delta
                 /\ wallets'.long_term_cash + wallets'.short_term_cash
                       = wallets.long_term_cash + wallets.short_term_cash + delta
                 /\ wallets'.long_term_cash \in
                       {wallets.long_term_cash, wallets.long_term_cash + delta}
                 /\ wallets'.reserved_cash = wallets.reserved_cash
                 /\ wallets'.total_invested - wallets'.total_withdrawn
                       = wallets.total_invested - wallets.total_withdrawn - delta
                 /\ ai_state'.monthly_trade_quota =
                       [ai_state.monthly_trade_quota EXCEPT !.used = @ + 1]
                 /\ ai_state'.weekly_trade_quota = ai_state.weekly_trade_quota
                 /\ ai_state'.market_view = ai_state.market_view]_vars
    /\ [][/\ Len(transactions') >= Len(transactions)
          /\ SubSeq(transactions', 1, Len(transactions)) = transactions]_vars

C22_Witness ==
    /\ last.op = "execute_trade"
    /\ last.ret
    /\ decision.decision_type = "SELL"
    /\ decision.price = 2
    /\ Len(transactions) = 2
    /\ used = 6

\* C23: with runs executed one after another, monthly_trade_quota.used never
\* exceeds limit; used is the count of the trades executed under its month
\* label: a trade is executed only while used < limit, under the label of the
\* current month unless the month reset failed, and raises used by 1, and
\* used changes otherwise only when the label changes, to 0.
C23_QuotaBound ==
    /\ [](used <= ai_state.monthly_trade_quota.limit)
    /\ [](ai_state.monthly_trade_quota.limit = QuotaLimit)
    /\ [][Len(transactions') # Len(transactions)
          => /\ used < ai_state.monthly_trade_quota.limit
             /\ obs.reset # "FAILED"
                => ai_state.monthly_trade_quota.month = MonthLabel(today)
             /\ Len(transactions') = Len(transactions) + 1
             /\ ai_state'.monthly_trade_quota =
                   [ai_state.monthly_trade_quota EXCEPT !.used = @ + 1]]_vars
    /\ [][(Len(transactions') = Len(transactions)
           /\ ai_state'.monthly_trade_quota # ai_state.monthly_trade_quota)
          => /\ ai_state'.monthly_trade_quota.month
                   # ai_state.monthly_trade_quota.month
             /\ ai_state'.monthly_trade_quota.used = 0]_vars

\* a run ended at the quota check after the trade that used the quota up
C23_Witness ==
    /\ pc = "done"
    /\ used = QuotaLimit
    /\ Len(transactions) = 1
    /\ obs.oracle = 0
    /\ result = TRUE

C25_PositionTypeStable ==
    /\ [][\A s \in Symbols :
             (positions[s].present /\ positions'[s].present)
             => positions'[s].position_type = positions[s].position_type]_vars
    /\ [][(/\ DecisionStep
           /\ decision'.decision_type = "BUY"
           /\ positions[decision'.symbol].present
           /\ decision'.position_type \in PositionTypes
           /\ decision'.position_type # positions[decision'.symbol].position_type)
          => ~last'.ret /\ UNCHANGED ledger]_vars

\* a SHORT_TERM BUY was refused on a LONG_TERM position
C25_Witness ==
    /\ last.op = "execute_trade"
    /\ ~last.ret
    /\ last.fault = 0
    /\ decision.decision_type = "BUY"
    /\ decision.position_type = "SHORT_TERM"
    /\ positions[decision.symbol].present
    /\ positions[decision.symbol].position_type = "LONG_TERM"
    /\ Len(transactions) = 1

\* C26: a SELL that succeeds adds quantity * price to cash_balance and to the
\* sub-account of the position_type stored in the positions row, leaves the
\* other sub-account and reserved_cash alone, and records the transaction
\* with the stored position_type, whatever position_type the decision names
\* or omits.
C26_SellUsesStoredType ==
    [][(DecisionStep /\ decision'.decision_type = "SELL" /\ last'.ret)
       => LET stored == positions[decision'.symbol].position_type
              total_amount == decision'.quantity * decision'.price
              row == transactions'[Len(transactions')]
          IN  /\ positions[decision'.symbol].present
              /\ wallets'.cash_balance = wallets.cash_balance + total_amount
              /\ wallets'.total_withdrawn = wallets.total_withdrawn + total_amount
              /\ wallets'.total_invested = wallets.total_invested
              /\ wallets'.reserved_cash = wallets.reserved_cash
              /\ IF stored = "LONG_TERM"
                 THEN /\ wallets'.long_term_cash
                            = wallets.long_term_cash + total_amount
                      /\ wallets'.short_term_cash = wallets.short_term_cash
                 ELSE /\ wallets'.short_term_cash
                            = wallets.short_term_cash + total_amount
                      /\ wallets'.long_term_cash = wallets.long_term_cash
              /\ row.action = "SELL"
              /\ row.position_type = stored]_vars

\* a SELL naming LONG_TERM was executed on a SHORT_TERM position
C26_Witness ==
    /\ last.op = "execute_trade"
    /\ last.ret
    /\ decision.decision_type = "SELL"
    /\ decision.position_type = "LONG_TERM"
    /\ decision.quantity > 0
    /\ Len(transactions) = 2
    /\ transactions[2].position_type = "SHORT_TERM"
    /\ wallets.short_term_cash >= 3

\* the step is a direct call of update_position_values
SweepStep == calls' = calls + 1 /\ last'.op = "update_position_values"

\* C27: update_position_values changes no wallet field, no transactions row
\* and no ai_state, and of a positions row neither its existence nor its
\* quantity, average_cost, position_type or first_buy_date; when it returns
\* True every row whose symbol has a price carries current_value =
\* quantity * price and unrealized_pnl = current_value - quantity *
\* average_cost and every other row is as before; running it again with the
\* same price map changes nothing.
C27_SweepFrame ==
    /\ [][SweepStep
          => /\ UNCHANGED <<wallets, transactions, ai_state>>
             /\ \A s \in Symbols :
                   /\ positions'[s].present = positions[s].present
                   /\ positions'[s].quantity = positions[s].quantity
                   /\ positions'[s].average_cost = positions[s].average_cost
                   /\ positions'[s].position_type = positions[s].position_type
                   /\ positions'[s].first_buy_date = positions[s].first_buy_date
             /\ last'.ret
                => \A s \in Symbols :
                      LET price == last'.current_prices[s]
                          row == positions'[s]
                          cost == positions[s].average_cost
                      IN  IF positions[s].present /\ price # 0
                          THEN /\ row.current_value.den = 1
                               /\ row.current_value.num = row.quantity * price
                               /\ row.unrealized_pnl.den # 0
                               /\ row.unrealized_pnl.num * cost.den
                                     = (row.quantity * price * cost.den
                                          - row.quantity * cost.num)
                                       * row.unrealized_pnl.den
                          ELSE row = positions[s]]_vars
    /\ [][(SweepStep /\ last'.ret /\ last.op = "update_position_values"
           /\ last.ret /\ last'.current_prices = last.current_prices)
          => UNCHANGED positions]_vars
    /\ [](\A current_prices \in PriceMaps :
             LET once == update_position_values(positions, current_prices)
             IN  update_position_values(once, current_prices) = once)

\* a sweep priced AAPL at 3 and had no price for XYZ: AAPL, bought at 1 and
\* at 2, is valued 6 with a gain of 3/2 per share, XYZ is as it was
C27_Witness ==
    /\ last.op = "update_position_values"
    /\ last.ret
    /\ last.current_prices = [s \in Symbols |-> IF s = "AAPL" THEN 3 ELSE 0]
    /\ positions["AAPL"].present
    /\ positions["AAPL"].quantity = 2
    /\ positions["AAPL"].average_cost = Rat(3, 2)
    /\ positions["AAPL"].current_value = Rat(6, 1)
    /\ positions["AAPL"].unrealized_pnl = Rat(3, 1)

\* the columns of the positions rows that a sweep must not touch
Holdings(pos) ==
    [s \in Symbols |->
        [present |-> pos[s].present, quantity |-> pos[s].quantity,
         average_cost |-> pos[s].average_cost,
         position_type |-> pos[s].position_type,
         first_buy_date |-> pos[s].first_buy_date]]

\* C28: however the SELECT and the per-symbol UPDATEs of one
\* update_position_values call interleave with one execute_trade transaction,
\* once the transaction has ended the existence, quantity, average_cost,
\* position_type and first_buy_date of every positions row and every wallet
\* field are what the transaction alone would have left, cash_balance is the
\* sum of the three accounts, every row holds a positive quantity, and a row
\* deleted by a SELL of the whole holding is not there after the sweep.
C28_SweepInterleaving ==
    /\ [](txn.pc = "done"
            => LET alone == transaction(txn.before, txn.work)
               IN  /\ Holdings(positions) = Holdings(alone.positions)
                   /\ wallets = alone.wallets
                   /\ transactions = alone.transactions
                   /\ ai_state = alone.ai_state)
    /\ [][sweep' # sweep
          => /\ Holdings(positions') = Holdings(positions)
             /\ UNCHANGED <<wallets, transactions, ai_state>>]_vars
    /\ [](wallets.cash_balance = wallets.long_term_cash + wallets.short_term_cash
                                   + wallets.reserved_cash)
    /\ [](\A s \in Symbols : positions[s].present => positions[s].quantity > 0)

\* the sweep read a row and had a price for it, a SELL of the whole holding
\* committed before the sweep's write, and the row is gone after the sweep
C28_Witness ==
    /\ txn.pc = "done"
    /\ txn.ret
    /\ txn.d.decision_type = "SELL"
    /\ sweep.pc = "done"
    /\ sweep.positions[txn.d.symbol].present
    /\ sweep.current_prices[txn.d.symbol] # 0
    /\ ~positions[txn.d.symbol].present

\* C29: a run in test mode writes nothing: ai_state (the monthly quota reset
\* included), wallets, positions, transactions, compliance_violations and
\* the token records stay as they are.
C29_TestModeWritesNothing ==
    [][test_mode
       => UNCHANGED <<ai_state, wallets, positions, transactions,
                      compliance_violations, ai_token_records>>]_vars

\* C30: every operation that mutates the wallet row, update_wallet with any
\* arguments included, changes cash_balance by exactly the sum of the changes
\* it makes to long_term_cash, short_term_cash and reserved_cash.
C30_WalletDeltasAgree ==
    [][wallets'.cash_balance - wallets.cash_balance =
          (wallets'.long_term_cash - wallets.long_term_cash)
        + (wallets'.short_term_cash - wallets.short_term_cash)
        + (wallets'.reserved_cash - wallets.reserved_cash)]_vars

\* C31: a caller that loaded the ai_state row at version v and calls
\* update_ai_state with that version after any other writer has modified the
\* row is rejected, whoever the writer was: a versioned update, an
\* unversioned quota reset or the quota increment of execute_trade.
C31_StaleUpdateRejected ==
    [][\A c \in Clients :
          (/\ clients[c].pc = "loaded"
           /\ clients'[c].pc = "updated"
           /\ ai_state # clients[c].seen.ai_state)
          => ~clients'[c].ret]_vars

\* BUY quantities minus SELL quantities of a symbol in the transactions log
RECURSIVE NetQuantity(_, _)
NetQuantity(txs, symbol) ==
    IF txs = <<>> THEN 0
    ELSE LET t == txs[Len(txs)]
         IN  NetQuantity(SubSeq(txs, 1, Len(txs) - 1), symbol)
             + (IF t.symbol # symbol THEN 0
                ELSE IF t.action = "BUY" THEN t.quantity ELSE 0 - t.quantity)

\* C32: for every symbol the quantity of the positions row, 0 when there is
\* none, is the BUY quantities minus the SELL quantities of the symbol in the
\* transactions log, also when two execute_trade transactions on the symbol
\* overlap.
C32_QuantityMatchesLog ==
    \A s \in Symbols :
        (IF positions[s].present THEN positions[s].quantity ELSE 0)
            = NetQuantity(transactions, s)

\* C33: when two runs on the same agent overlap, monthly_trade_quota.used
\* never exceeds limit, so two runs do not both trade on the last slot, and
\* used never goes down under the label of the current month, so the reset
\* of one run never erases a trade the other executed in that month.
C33_OverlappingRunsQuota ==
    /\ [](used <= ai_state.monthly_trade_quota.limit)
    /\ [][ai_state'.monthly_trade_quota.used < used
          => ai_state.monthly_trade_quota.month # MonthLabel(today)]_vars

\* C34: in a run with healthy storage and no other writer, a decision that
\* passed validate_decision is executed: execute_trade returns True for it.
C34_ValidatedExecutes ==
    [][(pc = "execute" /\ ~test_mode) => obs'.outcome = "EXECUTED"]_vars

\* C35: after any sequence of runs one after another, in which every
\* executed BUY or SELL first passed validate_decision, long_term_cash,
\* short_term_cash and cash_balance are not negative.
C35_CashNeverNegative ==
    /\ wallets.long_term_cash >= 0
    /\ wallets.short_term_cash >= 0
    /\ wallets.cash_balance >= 0

\* what the agent was given: the cash it holds, plus what it paid for its
\* BUYs, minus what its SELLs brought in
Endowment == wallets.cash_balance + wallets.total_invested - wallets.total_withdrawn

\* C36: cash_balance + total_invested - total_withdrawn is the same in every
\* state reached by execute_trade calls: a BUY moves total_amount from
\* cash_balance to total_invested, a SELL adds total_amount to cash_balance
\* and to total_withdrawn, and a failed trade changes none of the three.
C36_EndowmentConstant ==
    /\ [][Endowment' = Endowment]_vars
    /\ [][ExecuteStep =>
            LET total_amount == decision'.quantity * decision'.price
                w == wallets
                v == wallets'
            IN  IF ~last'.ret
                THEN v = w
                ELSE IF decision'.decision_type = "BUY"
                THEN /\ v.cash_balance = w.cash_balance - total_amount
                     /\ v.total_invested = w.total_invested + total_amount
                     /\ v.total_withdrawn = w.total_withdrawn
                ELSE /\ v.cash_balance = w.cash_balance + total_amount
                     /\ v.total_withdrawn = w.total_withdrawn + total_amount
                     /\ v.total_invested = w.total_invested]_vars

\* a BUY and then a SELL have been executed
C36_Witness ==
    /\ last.op = "execute_trade"
    /\ last.ret
    /\ last.decision_type = "SELL"
    /\ Len(transactions) = 2
    /\ wallets.total_invested > 0
    /\ wallets.total_withdrawn > 0

\* C37: first_buy_date is the day of the trade that created the row, and no
\* later BUY, SELL or mark-to-market changes it while the row exists; a BUY
\* after the SELL that deleted the row creates a row dated anew, from which
\* the holding period counts.
C37_FirstBuyDate ==
    [][\A s \in Symbols :
          /\ (~positions[s].present /\ positions'[s].present)
                => positions'[s].first_buy_date = today
          /\ (positions[s].present /\ positions'[s].present)
                => positions'[s].first_buy_date = positions[s].first_buy_date]_vars

\* a holding opened on day 0 was sold whole and bought again on day 30; the
\* new row is dated day 30 and a SELL of it is held back as a wash trade
C37_Witness ==
    /\ Len(transactions) = 3
    /\ transactions[1].action = "BUY"
    /\ transactions[2].action = "SELL"
    /\ transactions[3].action = "BUY"
    /\ today = 30
    /\ positions["AAPL"].present
    /\ positions["AAPL"].first_buy_date = 30
    /\ last.op = "execute_trade"
    /\ last.ret
    /\ ~last.present
    /\ _validate_wash_trade(positions,
                            [NoDecision EXCEPT !.decision_type = "SELL",
                                               !.symbol = "AAPL", !.quantity = 1],
                            today).violation_type = "WASH_TRADE_VIOLATION"

\* C38: the key event a run records after its BUY is first_buy exactly when
\* the log held no BUY of the symbol before this trade, and add_position
\* otherwise; after its SELL a liquidation is recorded exactly when the SELL
\* emptied the position.
C38_KeyEventKind ==
    [][(pc = "key_event" /\ ~test_mode) =>
          LET d == decision
              earlier == {i \in 1 .. Len(transactions) - 1 :
                             /\ transactions[i].symbol = d.symbol
                             /\ transactions[i].action = "BUY"}
              event(kind) == [event_type |-> kind, symbol |-> d.symbol]
          IN  IF d.decision_type = "BUY"
              THEN key_events' = Append(key_events,
                                        event(IF earlier = {} THEN "first_buy"
                                              ELSE "add_position"))
              ELSE IF ~positions[d.symbol].present
              THEN key_events' = Append(key_events, event("liquidation"))
              ELSE key_events' = key_events]_vars

====
